---------------------------- MODULE Spec2Model ----------------------------
(***************************************************************************)
(* A model of the concurrent crawl pipeline of ytn-news-automation:        *)
(*   desktop/core/crawler.py   CrawlerThread (orchestrator, fetch tasks,    *)
(*                             progress emission)                           *)
(*   server/main.py            AsyncCrawlingService (the REST caller with   *)
(*                             its 30 s wait)                               *)
(* Threads are numbered: 0 is the thread running crawl_ytn_news, i >= 1 is  *)
(* the pool worker running the task submitted with index i.                 *)
(* Left out: the "[HH:MM:SS]" prefix and the thread ident printed in the     *)
(* progress messages, and the text of a caught exception.                    *)
(***************************************************************************)
EXTENDS Integers, Sequences, FiniteSets, Bags, TLC

(* ------------------------------ bounds -------------------------------- *)
\* longest listing payload the site returns in specification Spec
MaxListing == 3
\* join keys the listing items are drawn from (two, so that a listing can
\* name the same article twice)
JoinKeys == {1, 2}

(* ------------------------- program constants -------------------------- *)
\* firestore_manager.py:439, 443  the lengths _validate_news_data truncates to
title_max == 500
content_max == 10000

\* crawler.py:88  ThreadPoolExecutor(max_workers=5)
max_workers == 5
\* crawler.py:32  self.target_count = 10
default_target_count == 10
\* crawler.py:199 articles[:10]
listing_cap == 10

VARIABLES
    response,         \* what the listing endpoint answers to the discovery POST
    site,             \* for each article URL, the outcomes a GET of it can have
    pc,               \* crawl_ytn_news: the statement the orchestrator is at
    mainIn,           \* the orchestrator is inside emit_progress's with-block
    news_urls,        \* crawl_ytn_news: news_urls (get_news_urls's result)
    executor,         \* "none", "open" (inside the with-block), "shutdown"
    futures,          \* the submitted tasks, in submission order; of each: its
                      \* index and url, the statement it is at, the GETs it
                      \* has made, the page it parsed (<<>>: none), whether
                      \* it built its record (fetched), and its result (<<>>
                      \* for None, <<news>> for a record)
    pre,              \* as_completed: futures found finished when it started
    waiter,           \* as_completed: waiter installed (TRUE once it started)
    finished_futures, \* as_completed: waiter.finished_futures, completion order
    yielded,          \* as_completed: futures already handed to the loop
    cur,              \* the loop variable future (0: none)
    current_count,    \* crawl_ytn_news: current_count
    results,          \* crawl_ytn_news: results
    news_list,        \* crawl_ytn_news: news_list
    ret,              \* <<>> until crawl_ytn_news returned, then <<its value>>
    progress_lock,    \* set of threads holding self.progress_lock
    counter_lock,     \* set of threads holding self.counter_lock
    completed_count,  \* self.completed_count
    sink,             \* the messages progress_updated has emitted (a bag:
                      \* how often each was emitted, their order left out)
    caller,           \* "direct" (GUI / __main__) or "rest" (AsyncCrawlingService)
    svc_pc,           \* AsyncCrawlingService.crawl_ytn_news: where it is
    svc_result,       \* <<>> until the service returned, then <<its dict>>
    completedAtTimeout, \* records the tasks had produced when the 30 s elapsed
    other,            \* a second crawl_ytn_news running on the same CrawlerThread
                      \* (its own locals: where it is, how many records it
                      \* has collected, its current_count)
    target_count,     \* self.target_count
    pages,            \* for each article URL, the pages a 2xx answer can carry
    fault,            \* an exception no statement of crawl_ytn_news expects:
                      \* "none", "armed" (one will be raised), "unhandled"
                      \* (raised, caught at :121), "handled" (caught at :112),
                      \* "escaped" (raised outside the try-block)
    WEB_SCRAPING_AVAILABLE, \* crawler.py:6-12  requests and bs4 were imported
    run_pc,           \* CrawlerThread.run: "none" (not called), "start",
                      \* "crawling", "except", "done"
    crawling_finished, \* the lists the crawling_finished signal has emitted
    reply,            \* what the callers' handlers told the user, one entry
                      \* per handled result: whether it is a success and the
                      \* records handed to persistence
    input,            \* the argument of a function called on its own
    output,           \* the values its successive calls returned
    history,          \* whether the order in which the tasks finish is kept
    \* BlogPostThread (core/blog_poster.py)
    PLAYWRIGHT_AVAILABLE, \* the module's flag
    use_parallel,     \* the thread's mode
    post_list,        \* self.news_list
    blog,             \* for each news id, what posting it can end in
    post_pc,          \* the position of run and of the method it calls
    post_i,           \* the number of items (sequential) or batches (parallel) done
    posted_news,      \* self.posted_news
    success_count,    \* the local success_count
    post_tasks,       \* the posting task of each item: its position and result
    batch_results,    \* the local results of _process_batch_parallel
    post_lock,        \* the holders of the thread's progress_lock
    post_sink,        \* the messages emitted with progress_updated
    posting_finished, \* the lists emitted with posting_finished
    \* MainWindow (ui/main_window.py)
    news_data,        \* self.news_data: the records of the table
    next_doc,         \* the number of documents the store has created
    \* FirestoreManager.delete_old_news (core/firestore_manager.py)
    db_available,     \* is_available()
    docs,             \* the documents the query returned
    del_pc,           \* the position of delete_old_news
    deleted_count,    \* the local deleted_count
    batch,            \* the deletions put into the current write batch
    committed,        \* the batches whose commit succeeded
    del_ret           \* the value returned, once it has returned

vars == <<response, site, pc, mainIn, news_urls, executor, futures, pre, waiter,
          finished_futures, yielded, cur, current_count, results, news_list,
          ret, progress_lock, counter_lock, completed_count, sink, caller,
          svc_pc, svc_result, completedAtTimeout, other, fault, pages,
          target_count, WEB_SCRAPING_AVAILABLE, run_pc, crawling_finished,
          reply, input, output, history, PLAYWRIGHT_AVAILABLE, use_parallel,
          post_list, blog, post_pc, post_i, posted_news, success_count,
          post_tasks, batch_results, post_lock, post_sink, posting_finished,
          news_data, next_doc, db_available, docs, del_pc, deleted_count,
          batch, committed, del_ret>>

crawlVars == <<pc, mainIn, news_urls, executor, futures, pre, waiter,
               finished_futures, yielded, cur, current_count, results,
               news_list, ret, progress_lock, counter_lock, completed_count,
               sink>>
\* what the crawl itself never writes
\* what belongs to the specifications that vary one more thing than Spec does
\* CrawlerThread.run and the handlers of the crawl's result
callerVars == <<WEB_SCRAPING_AVAILABLE, run_pc, crawling_finished, reply>>
\* a function of the program called on its own
callVars == <<input, output>>
\* BlogPostThread
postVars == <<PLAYWRIGHT_AVAILABLE, use_parallel, post_list, blog, post_pc, post_i,
              posted_news, success_count, post_tasks, batch_results, post_lock,
              post_sink, posting_finished>>
\* the parts of the application other than the crawler
\* MainWindow
winVars == <<news_data, next_doc>>
\* FirestoreManager.delete_old_news
storeVars == <<db_available, docs, del_pc, deleted_count, batch, committed, del_ret>>
appVars == <<postVars, winVars, storeVars>>
extra == <<other, fault, pages, target_count, callerVars, callVars, history, appVars>>
env == <<response, site, caller, svc_pc, svc_result, completedAtTimeout, extra>>


(* ------------------------- small helpers ------------------------------ *)
Min(a, b) == IF a <= b THEN a ELSE b
Prefix(s, n) == SubSeq(s, 1, Min(n, Len(s)))
Range(s) == {s[i] : i \in DOMAIN s}
RECURSIVE SeqsUpTo(_, _)
SeqsUpTo(S, n) ==
    IF n = 0 THEN {<<>>}
    ELSE LET shorter == SeqsUpTo(S, n - 1)
         IN  shorter \cup {Append(s, x) : s \in {q \in shorter : Len(q) = n - 1}, x \in S}
Count(s, P(_)) == Cardinality({i \in DOMAIN s : P(s[i])})

(* ----------------------- the listing endpoint ------------------------- *)
\* one item of the JSON listing: crawler.py:200-201 reads join_key and mcd
Items == [mcd : {"0101"}, join_key : JoinKeys]
\* the body of an answer that is not a JSON list of objects, as the sequence
\* of its tokens (" " is white space): empty, blank, null, null in white
\* space, false, a page that is not JSON, a JSON object, a JSON list of numbers
Bodies == { <<>>, <<" ">>, <<"null">>, <<" ", "null", " ">>, <<"false">>,
            <<"<html>">>, <<"{}">>, <<"[1]">> }
\* the answers to the discovery POST: the request fails ("request_error": no
\* connection, timeout), the status is 4xx/5xx ("http_error"), a 2xx with one
\* of Bodies ("body"), a 2xx with a JSON list of items ("list")
FailedResponses ==
    { [kind |-> k, text |-> <<>>, items |-> <<>>] : k \in {"request_error", "http_error"} }
    \cup { [kind |-> "body", text |-> b, items |-> <<>>] : b \in Bodies }
ListResponses(n) ==
    { [kind |-> "list", text |-> <<"[{}]">>, items |-> s] : s \in SeqsUpTo(Items, n) }
Responses == FailedResponses \cup ListResponses(MaxListing)

\* str.strip(): the text without its leading and trailing white space
RECURSIVE lstrip(_)
lstrip(text) ==
    IF text # <<>> /\ Head(text) = " " THEN lstrip(Tail(text)) ELSE text
RECURSIVE rstrip(_)
rstrip(text) ==
    IF text # <<>> /\ text[Len(text)] = " "
    THEN rstrip(SubSeq(text, 1, Len(text) - 1)) ELSE text
strip(text) == rstrip(lstrip(text))

\* response.json() of a body: what it is, or that it raises
json(text) ==
    LET t == strip(text)
    IN  CASE t = <<"null">>  -> "None"
          [] t = <<"false">> -> "False"
          [] t = <<"{}">>    -> "dict"
          [] t = <<"[1]">>   -> "list_of_int"
          [] OTHER           -> "JSONDecodeError"

\* crawler.py:204  f"https://www.ytn.co.kr/_ln/{mcd}_{join_key}"
news_url(article) == <<"https://www.ytn.co.kr/_ln/", article.mcd, "_", article.join_key>>

\* what a call gives: the exception it raises ("none": it returns) and the
\* value it returns
Returns(value) == [exc |-> "none", value |-> value]
Raises(exc) == [exc |-> exc, value |-> <<>>]
\* requests.RequestException and the subclasses raised here
RequestExceptions == {"RequestException", "HTTPError"}

\* the try-block of get_news_urls without the [:10] of its loop
get_news_urls_uncapped(resp) ==
    IF resp.kind = "list"
    THEN Returns([i \in 1..Len(resp.items) |-> news_url(resp.items[i])])
    ELSE Returns(<<>>)

\* crawler.py:153-207  the try-block of get_news_urls
get_news_urls_try(resp) ==
    IF resp.kind = "request_error" THEN Raises("RequestException")        \* :157
    ELSE IF resp.kind = "http_error" THEN Raises("HTTPError")             \* :158
    ELSE IF resp.kind = "body"
    THEN IF resp.text = <<>> \/ strip(resp.text) \in {<<"null">>, <<>>, <<"false">>}
         THEN Returns(<<>>)                                               \* :167-169
         ELSE LET articles == json(resp.text)
              IN  IF articles = "JSONDecodeError" THEN Returns(<<>>)      \* :174-177
                  ELSE IF articles = "None" THEN Returns(<<>>)            \* :180-182
                  ELSE IF articles # "list_of_int" THEN Returns(<<>>)     \* :185-188
                  ELSE Raises("AttributeError")                           \* :200
    ELSE LET articles == Prefix(resp.items, listing_cap)                  \* :199
         IN  Returns([i \in 1..Len(articles) |-> news_url(articles[i])])

\* get_news_urls without its except clauses
get_news_urls_uncaught(resp) == get_news_urls_try(resp)

\* crawler.py:125-214  the try-block and the handlers at :209 and :212
get_news_urls(resp) ==
    LET r == get_news_urls_try(resp)
    IN  IF r.exc = "none" THEN r
        ELSE IF r.exc \in RequestExceptions THEN Returns(<<>>)            \* :209-211
        ELSE Returns(<<>>)                                                \* :212-214

\* s[:n] in Python: the first n items, all but the last -n when n is negative
SliceTo(s, n) ==
    IF n >= 0 THEN SubSeq(s, 1, Min(n, Len(s)))
    ELSE SubSeq(s, 1, IF Len(s) + n > 0 THEN Len(s) + n ELSE 0)

\* crawler.py:91  news_urls[:self.target_count]
target_urls == SliceTo(news_urls, target_count)

(* ------------------------- progress messages -------------------------- *)
Msg(kind, index, url, n) == [kind |-> kind, index |-> index, url |-> url, n |-> n]
NoUrl == <<>>

\* the message the orchestrator passes to emit_progress at statement p
MainMsg(p) ==
    CASE p = "emit_connecting" -> Msg("connecting", 0, NoUrl, 0)            \* :70
      [] p = "emit_no_links"   -> Msg("no_links", 0, NoUrl, 0)              \* :78
      [] p = "emit_found"      -> Msg("found", 0, NoUrl, Len(news_urls))    \* :81
      [] p = "emit_submit"     -> Msg("submit", Len(futures) + 1, NoUrl,
                                      Len(target_urls))                     \* :94
      [] p = "emit_collected"  -> Msg("collected", 0, NoUrl, current_count) \* :111
      [] p = "emit_final"      -> Msg("final", 0, NoUrl, Len(news_list))    \* :118
      [] p = "emit_loop_error" -> Msg("loop_error", 0, NoUrl, 0)            \* :113
      [] p = "emit_failed"     -> Msg("failed", 0, NoUrl, 0)                \* :122

\* the statement after the emit_progress call at statement p
AfterEmit(p) ==
    CASE p = "emit_connecting" -> "discover"
      [] p = "emit_no_links"   -> "return_empty"
      [] p = "emit_found"      -> "reset_counter"
      [] p = "emit_submit"     -> "submit"
      [] p = "emit_collected"  -> "next_future"
      [] p = "emit_final"      -> "return"
      [] p = "emit_loop_error" -> "next_future"
      [] p = "emit_failed"     -> "return_failed"

EmitStatements == {"emit_connecting", "emit_no_links", "emit_found",
                   "emit_submit", "emit_collected", "emit_final",
                   "emit_loop_error", "emit_failed"}

\* the message a fetch task passes to emit_progress at its statement p
TaskMsg(f) ==
    CASE f.pc \in {"begin", "begin_in"} -> Msg("task_start", f.index, f.url, 0) \* :221
      [] f.pc \in {"ok", "ok_in"}       -> Msg("task_done", f.index, NoUrl, 0)  \* :255
      [] f.pc \in {"err", "err_in"}     -> Msg("task_error", 0, f.url, 0)       \* :259-261

(* ------------------------- emit_progress ------------------------------ *)
\* emit_progress without the lock: nothing to wait for
emit_acquire_unlocked(th) ==
    progress_lock' = progress_lock \cup {th}

\* crawler.py:63  with self.progress_lock:  (entry: blocks while it is held)
emit_acquire(th) ==
    /\ progress_lock = {}
    /\ progress_lock' = {th}

\* an emit_progress that returns with the lock still held
emit_deliver_keeping_lock(th, m) ==
    /\ sink' = sink (+) SetToBag({m})
    /\ progress_lock' = progress_lock

\* crawler.py:64-66  progress_updated.emit(...), then the with-block's release
emit_deliver(th, m) ==
    /\ sink' = sink (+) SetToBag({m})
    /\ progress_lock' = progress_lock \ {th}

(* --------------------------- the pool --------------------------------- *)
Tasks == DOMAIN futures
Running == {t \in Tasks : futures[t].pc \notin {"queued", "finished"}}
Finished == {t \in Tasks : futures[t].pc = "finished"}
InSectionTasks == {t \in Tasks : futures[t].pc \in {"begin_in", "ok_in", "err_in"}}
InSection == InSectionTasks \cup (IF mainIn THEN {0} ELSE {})

\* a pool that starts a thread for every submitted task
PoolUnbounded == TRUE

\* ThreadPoolExecutor(max_workers=5): a queued work item is taken only by an
\* idle worker, and at most max_workers workers exist
PoolHasFreeWorker == Cardinality(Running) < max_workers
\* the work queue is first-in first-out
NextQueued(t) == futures[t].pc = "queued" /\ \A u \in Tasks : u < t => futures[u].pc # "queued"

(* ===================== crawl_ytn_news (orchestrator) =================== *)
\* any emit_progress call of the orchestrator: take the lock
MainEmitEnter ==
    /\ pc \in EmitStatements
    /\ ~mainIn
    /\ emit_acquire(0)
    /\ mainIn' = TRUE
    /\ UNCHANGED <<env, pc, news_urls, executor, futures, pre, waiter, finished_futures,
                   yielded, cur, current_count, results, news_list, ret,
                   counter_lock, completed_count, sink>>

\* ... emit and release
MainEmitExit ==
    /\ pc \in EmitStatements
    /\ mainIn
    /\ emit_deliver(0, MainMsg(pc))
    /\ mainIn' = FALSE
    /\ pc' = AfterEmit(pc)
    /\ UNCHANGED <<env, news_urls, executor, futures, pre, waiter, finished_futures,
                   yielded, cur, current_count, results, news_list, ret,
                   counter_lock, completed_count>>

\* discovery without the check for an empty list
DiscoverWithoutEmptyCheck ==
    /\ pc = "discover"
    /\ news_urls' = get_news_urls(response).value
    /\ pc' = "emit_found"
    /\ UNCHANGED <<env, mainIn, executor, futures, pre, waiter, finished_futures,
                   yielded, cur, current_count, results, news_list, ret,
                   progress_lock, counter_lock, completed_count, sink>>

\* crawler.py:74-81  news_urls = self.get_news_urls(); if not news_urls: ...
\* (an exception out of the call would be caught at :121)
Discover ==
    /\ pc = "discover"
    /\ LET r == get_news_urls(response)
       IN  IF r.exc # "none"
           THEN /\ news_urls' = news_urls
                /\ pc' = "emit_failed"
           ELSE /\ news_urls' = r.value
                /\ pc' = IF r.value = <<>> THEN "emit_no_links" ELSE "emit_found"
    /\ UNCHANGED <<env, mainIn, executor, futures, pre, waiter, finished_futures,
                   yielded, cur, current_count, results, news_list, ret,
                   progress_lock, counter_lock, completed_count, sink>>

\* crawler.py:79  return []
ReturnEmpty ==
    /\ pc = "return_empty"
    /\ ret' = << <<>> >>
    /\ pc' = "returned"
    /\ UNCHANGED <<env, mainIn, news_urls, executor, futures, pre, waiter,
                   finished_futures, yielded, cur, current_count, results,
                   news_list, progress_lock, counter_lock, completed_count, sink>>

\* crawler.py:84  with self.counter_lock:
ResetAcquire ==
    /\ pc = "reset_counter"
    /\ counter_lock = {}
    /\ counter_lock' = {0}
    /\ pc' = "reset_counter_in"
    /\ UNCHANGED <<env, mainIn, news_urls, executor, futures, pre, waiter,
                   finished_futures, yielded, cur, current_count, results,
                   news_list, ret, progress_lock, completed_count, sink>>

\* crawler.py:85  self.completed_count = 0, and the with-block's release
ResetCounter ==
    /\ pc = "reset_counter_in"
    /\ completed_count' = 0
    /\ counter_lock' = counter_lock \ {0}
    /\ pc' = "open_pool"
    /\ UNCHANGED <<env, mainIn, news_urls, executor, futures, pre, waiter,
                   finished_futures, yielded, cur, current_count, results,
                   news_list, ret, progress_lock, sink>>

\* crawler.py:88-93  with ThreadPoolExecutor(max_workers=5) as executor: ...
OpenPool ==
    /\ pc = "open_pool"
    /\ executor' = "open"
    /\ pc' = IF Len(target_urls) = 0 THEN "as_completed" ELSE "emit_submit"
    /\ UNCHANGED <<env, mainIn, news_urls, futures, pre, waiter, finished_futures,
                   yielded, cur, current_count, results, news_list, ret,
                   progress_lock, counter_lock, completed_count, sink>>

\* crawler.py:95-96  future = executor.submit(self.crawl_single_news_safe, url, i+1)
Submit ==
    /\ pc = "submit"
    /\ LET i == Len(futures) + 1
       IN  /\ futures' = Append(futures, [index |-> i, url |-> target_urls[i],
                                          pc |-> "queued", gets |-> 0,
                                          page |-> <<>>, fetched |-> FALSE,
                                          result |-> <<>>, nth |-> 0,
                                          early |-> FALSE])
           /\ pc' = IF i < Len(target_urls) THEN "emit_submit" ELSE "as_completed"
    /\ UNCHANGED <<env, mainIn, news_urls, executor, pre, waiter, finished_futures,
                   yielded, cur, current_count, results, news_list, ret,
                   progress_lock, counter_lock, completed_count, sink>>

\* crawler.py:100  concurrent.futures.as_completed(futures), up to its first
\* yield: the futures already finished are set aside and a waiter is installed
AsCompletedStart ==
    /\ pc = "as_completed"
    /\ pre' = Finished
    /\ waiter' = TRUE
    /\ pc' = "next_future"
    /\ UNCHANGED <<env, mainIn, news_urls, executor, futures, finished_futures,
                   yielded, cur, current_count, results, news_list, ret,
                   progress_lock, counter_lock, completed_count, sink>>

\* as_completed's next future: those set aside first, in the order of a set
\* (any order), then the others in the order they finished
CanYield(t) ==
    \/ t \in pre
    \/ pre = {} /\ finished_futures # <<>> /\ t = Head(finished_futures)

\* crawler.py:100  for future in as_completed(futures):
NextFuture ==
    /\ pc = "next_future"
    /\ \E t \in Tasks \ yielded :
        /\ CanYield(t)
        /\ cur' = t
        /\ yielded' = yielded \cup {t}
        /\ pre' = pre \ {t}
        /\ finished_futures' = IF t \in pre THEN finished_futures
                               ELSE Tail(finished_futures)
    /\ pc' = "result"
    /\ UNCHANGED <<env, mainIn, news_urls, executor, futures, waiter, current_count,
                   results, news_list, ret, progress_lock, counter_lock,
                   completed_count, sink>>

\* a loop that gives up at the first task that returned None
TakeResultAbortOnNone ==
    /\ pc = "result"
    /\ LET news == futures[cur].result
       IN  IF news # <<>>
           THEN /\ results' = Append(results, news[1])
                /\ pc' = "count"
           ELSE /\ results' = results
                /\ pc' = "shutdown"
    /\ UNCHANGED <<env, mainIn, news_urls, executor, futures, pre, waiter,
                   finished_futures, yielded, cur, current_count, news_list,
                   ret, progress_lock, counter_lock, completed_count, sink>>

\* crawler.py:102-104  news = future.result(); if news: results.append(news)
\* (future.result() never raises: crawl_single_news_safe catches every
\* Exception at :258 and returns None; the handlers at :112-113 and :121-123
\* are entered only by the exceptions of Raise and RaiseInLoop below)
TakeResult ==
    /\ pc = "result"
    /\ LET news == futures[cur].result
       IN  IF news # <<>>
           THEN /\ results' = Append(results, news[1])
                /\ pc' = "count"
           ELSE /\ results' = results
                /\ pc' = "next_future"
    /\ UNCHANGED <<env, mainIn, news_urls, executor, futures, pre, waiter,
                   finished_futures, yielded, cur, current_count, news_list,
                   ret, progress_lock, counter_lock, completed_count, sink>>

\* the counter update without its with-block
CountWithoutLock ==
    /\ pc = "count"
    /\ pc' = "count_in"
    /\ UNCHANGED <<env, mainIn, news_urls, executor, futures, pre, waiter,
                   finished_futures, yielded, cur, current_count, results,
                   news_list, ret, progress_lock, counter_lock, completed_count,
                   sink>>

\* crawler.py:107  with self.counter_lock:
CountAcquire ==
    /\ pc = "count"
    /\ counter_lock = {}
    /\ counter_lock' = {0}
    /\ pc' = "count_in"
    /\ UNCHANGED <<env, mainIn, news_urls, executor, futures, pre, waiter,
                   finished_futures, yielded, cur, current_count, results,
                   news_list, ret, progress_lock, completed_count, sink>>

\* the count read before the increment instead of after it
CountIncrementStaleRead ==
    /\ pc = "count_in"
    /\ completed_count' = completed_count + 1
    /\ current_count' = completed_count
    /\ counter_lock' = counter_lock \ {0}
    /\ pc' = "emit_collected"
    /\ UNCHANGED <<env, mainIn, news_urls, executor, futures, pre, waiter,
                   finished_futures, yielded, cur, results, news_list, ret,
                   progress_lock, sink>>

\* the counter block with the success message inside it: the lock is kept
CountIncrementKeepingLock ==
    /\ pc = "count_in"
    /\ completed_count' = completed_count + 1
    /\ current_count' = completed_count'
    /\ counter_lock' = counter_lock
    /\ pc' = "emit_collected"
    /\ UNCHANGED <<env, mainIn, news_urls, executor, futures, pre, waiter,
                   finished_futures, yielded, cur, results, news_list, ret,
                   progress_lock, sink>>

\* crawler.py:108-109  self.completed_count += 1; current_count = ..., release
CountIncrement ==
    /\ pc = "count_in"
    /\ completed_count' = completed_count + 1
    /\ current_count' = completed_count'
    /\ counter_lock' = counter_lock \ {0}
    /\ pc' = "emit_collected"
    /\ UNCHANGED <<env, mainIn, news_urls, executor, futures, pre, waiter,
                   finished_futures, yielded, cur, results, news_list, ret,
                   progress_lock, sink>>

\* a loop that stops without waiting for the outstanding futures
LoopLeftEarly == TRUE

\* as_completed is exhausted: every future has been yielded
LoopDone == yielded = Tasks

\* crawler.py:116  news_list.extend(results)
Extend ==
    /\ pc = "next_future"
    /\ LoopDone
    /\ news_list' = news_list \o results
    /\ pc' = "shutdown"
    /\ UNCHANGED <<env, mainIn, news_urls, executor, futures, pre, waiter,
                   finished_futures, yielded, cur, current_count, results, ret,
                   progress_lock, counter_lock, completed_count, sink>>

\* the end of the with-block: executor.shutdown(wait=True) joins the workers
PoolDrained == Running = {} /\ \A t \in Tasks : futures[t].pc = "finished"

\* crawler.py:88  (leaving the with-block)
Shutdown ==
    /\ pc = "shutdown"
    /\ PoolDrained
    /\ executor' = "shutdown"
    /\ pc' = "emit_final"
    /\ UNCHANGED <<env, mainIn, news_urls, futures, pre, waiter, finished_futures,
                   yielded, cur, current_count, results, news_list, ret,
                   progress_lock, counter_lock, completed_count, sink>>

\* crawler.py:119  return news_list
Return ==
    /\ pc = "return"
    /\ ret' = <<news_list>>
    /\ pc' = "returned"
    /\ UNCHANGED <<env, mainIn, news_urls, executor, futures, pre, waiter,
                   finished_futures, yielded, cur, current_count, results,
                   news_list, progress_lock, counter_lock, completed_count, sink>>

(* -------- exceptions crawl_ytn_news does not expect (:112, :121) ------- *)
\* the statements of the try-block at :73 that are outside the inner try of
\* the loop: discovery (:74-75), the emits at :78, :81 and :95, the counter
\* reset (:84), the pool's construction (:88-91), submit (:96), as_completed
\* and its iteration (:99-100)
OuterTryStatements == {"discover", "emit_no_links", "emit_found", "reset_counter",
                       "open_pool", "emit_submit", "submit", "as_completed",
                       "next_future"}
\* the statements of the inner try-block at :101
InnerTryStatements == {"result", "count", "emit_collected"}

\* an exception at a statement of the outer try-block that nothing catches
RaiseUncaught ==
    /\ fault = "armed"
    /\ pc \in OuterTryStatements
    /\ ~mainIn
    /\ fault' = "unhandled"
    /\ pc' = "propagated"
    /\ UNCHANGED <<response, site, caller, svc_pc, svc_result, completedAtTimeout,
                   other, pages, target_count, callVars, history, appVars, callerVars, mainIn, news_urls,
                   executor, futures, pre, waiter,
                   finished_futures, yielded, cur, current_count, results,
                   news_list, ret, progress_lock, counter_lock, completed_count,
                   sink>>

\* crawler.py:73-121  a statement of the outer try-block raises: inside the
\* with-block the pool is shut down first, then the handler at :121 runs
Raise ==
    /\ fault = "armed"
    /\ pc \in OuterTryStatements
    /\ ~mainIn
    /\ fault' = "unhandled"
    /\ pc' = IF executor = "open" THEN "fail_shutdown" ELSE "emit_failed"
    /\ UNCHANGED <<response, site, caller, svc_pc, svc_result, completedAtTimeout,
                   other, pages, target_count, callVars, history, appVars, callerVars, mainIn, news_urls,
                   executor, futures, pre, waiter,
                   finished_futures, yielded, cur, current_count, results,
                   news_list, ret, progress_lock, counter_lock, completed_count,
                   sink>>

\* crawler.py:101-113  a statement of the loop's try-block raises: the handler
\* at :112 reports it and the loop goes on
RaiseInLoop ==
    /\ fault = "armed"
    /\ pc \in InnerTryStatements
    /\ ~mainIn
    /\ fault' = "handled"
    /\ pc' = "emit_loop_error"
    /\ UNCHANGED <<response, site, caller, svc_pc, svc_result, completedAtTimeout,
                   other, pages, target_count, callVars, history, appVars, callerVars, mainIn, news_urls,
                   executor, futures, pre, waiter,
                   finished_futures, yielded, cur, current_count, results,
                   news_list, ret, progress_lock, counter_lock, completed_count,
                   sink>>

\* crawler.py:88  the exception leaves the with-block: shutdown(wait=True)
FailShutdown ==
    /\ pc = "fail_shutdown"
    /\ PoolDrained
    /\ executor' = "shutdown"
    /\ pc' = "emit_failed"
    /\ UNCHANGED <<env, mainIn, news_urls, futures, pre, waiter, finished_futures,
                   yielded, cur, current_count, results, news_list, ret,
                   progress_lock, counter_lock, completed_count, sink>>

\* crawler.py:123  return news_list
ReturnFailed ==
    /\ pc = "return_failed"
    /\ ret' = <<news_list>>
    /\ pc' = "returned"
    /\ UNCHANGED <<env, mainIn, news_urls, executor, futures, pre, waiter,
                   finished_futures, yielded, cur, current_count, results,
                   news_list, progress_lock, counter_lock, completed_count, sink>>

(* ================= crawl_single_news_safe (fetch task) ================= *)
SetTask(t, f) == futures' = [futures EXCEPT ![t] = f]

\* a pool worker takes the task from the work queue and calls the function
TaskStart(t) ==
    /\ NextQueued(t)
    /\ PoolHasFreeWorker
    /\ SetTask(t, [futures[t] EXCEPT !.pc = "begin"])
    /\ UNCHANGED <<env, pc, mainIn, news_urls, executor, pre, waiter, finished_futures,
                   yielded, cur, current_count, results, news_list, ret,
                   progress_lock, counter_lock, completed_count, sink>>

\* any emit_progress call of the task: take the lock
TaskEmitEnter(t) ==
    /\ futures[t].pc \in {"begin", "ok", "err"}
    /\ emit_acquire(t)
    /\ SetTask(t, [futures[t] EXCEPT !.pc = CASE @ = "begin" -> "begin_in"
                                               [] @ = "ok"    -> "ok_in"
                                               [] @ = "err"   -> "err_in"])
    /\ UNCHANGED <<env, pc, mainIn, news_urls, executor, pre, waiter, finished_futures,
                   yielded, cur, current_count, results, news_list, ret,
                   counter_lock, completed_count, sink>>

\* crawler.py:221  the start message is out; next is the GET
TaskBeginExit(t) ==
    /\ futures[t].pc = "begin_in"
    /\ emit_deliver(t, TaskMsg(futures[t]))
    /\ SetTask(t, [futures[t] EXCEPT !.pc = "get"])
    /\ UNCHANGED <<env, pc, mainIn, news_urls, executor, pre, waiter, finished_futures,
                   yielded, cur, current_count, results, news_list, ret,
                   counter_lock, completed_count>>

\* what one GET can end in (crawler.py:225-226)
HttpOutcomes == {"ok", "timeout", "connection_error", "http_error"}

(* ---- the page and its extraction (crawler.py:228-253, 284-310, 404-411) ---- *)
\* a text is the sequence of its runs <<c, n>>: n characters of class c, white
\* space (" ") or other ("x"); adjacent runs are of different classes
Ws(n) == <<" ", n>>
Chars(n) == <<"x", n>>
RECURSIVE TextLen(_)
TextLen(text) == IF text = <<>> THEN 0 ELSE Head(text)[2] + TextLen(Tail(text))

\* crawler.py:410  re.sub(r'\s+', ' ', content)
sub_spaces(text) ==
    [i \in DOMAIN text |-> IF text[i][1] = " " THEN Ws(1) ELSE text[i]]
\* crawler.py:410  .strip()
RECURSIVE text_lstrip(_)
text_lstrip(text) ==
    IF text # <<>> /\ Head(text)[1] = " " THEN text_lstrip(Tail(text)) ELSE text
RECURSIVE text_rstrip(_)
text_rstrip(text) ==
    IF text # <<>> /\ text[Len(text)][1] = " "
    THEN text_rstrip(SubSeq(text, 1, Len(text) - 1)) ELSE text
\* Python's None where a text is expected
None == << <<"None", 0>> >>

\* clean_content without the final strip()
clean_content_unstripped(content) ==
    IF content = <<>> \/ content = None THEN <<>>
    ELSE sub_spaces(content)

\* crawler.py:404-411  `if not content` is true of None and of the empty string
clean_content(content) ==
    IF content = <<>> \/ content = None THEN <<>>
    ELSE text_rstrip(text_lstrip(sub_spaces(content)))

\* crawler.py:296 and :310  the strings returned when the selector finds nothing
TitleNotFound == << <<"title_not_found", 13>> >>
ContentNotFound == << <<"content_not_found", 18>> >>

\* a page: for the title selector and the content selector, the text of the
\* element select_one finds (<<>>: it finds none, <<text>>: an element with
\* this text), and whether parsing it or an extractor raises an exception
Page(title, content, raises) ==
    [title |-> title, content |-> content, raises |-> raises]

\* extract_title without the default string: None when no element is found
extract_title_or_none(page) ==
    IF page.title # <<>> THEN clean_content(page.title[1]) ELSE None

\* extract_content without the default string: None when no element is found
extract_content_or_none(page) ==
    IF page.content # <<>> THEN clean_content(page.content[1]) ELSE None

\* crawler.py:284-296
extract_title(page) ==
    IF page.title # <<>> THEN clean_content(page.title[1]) ELSE TitleNotFound

\* crawler.py:298-310
extract_content(page) ==
    IF page.content # <<>> THEN clean_content(page.content[1]) ELSE ContentNotFound

\* crawler.py:241-253  the record built from the page (of its fields those
\* that depend on the title and content selectors, the task's arguments and
\* the two posting fields)
NewsRecord(f, page) ==
    [url |-> f.url, index |-> f.index, title |-> extract_title(page),
     content |-> extract_content(page), posted_to_blog |-> FALSE, blog_url |-> ""]

\* crawler.py:225-228  the page the task has parsed: none unless the GET was
\* answered with a 2xx
Parsed(http, page) == IF http = "ok" THEN <<page>> ELSE <<>>

\* a GET whose status is never looked at (no raise_for_status): the error
\* page of a failed fetch is parsed like an article
TaskGetIgnoringStatus(t) ==
    /\ futures[t].pc = "get"
    /\ \E http \in site[futures[t].url], page \in pages[futures[t].url] :
        IF http \in {"ok", "http_error"} /\ ~page.raises
        THEN SetTask(t, [futures[t] EXCEPT !.pc = "ok", !.gets = @ + 1,
                                           !.page = <<page>>,
                                           !.fetched = (http = "ok"),
                                           !.result = <<NewsRecord(futures[t], page)>>])
        ELSE SetTask(t, [futures[t] EXCEPT !.pc = "err", !.gets = @ + 1,
                                           !.page = Parsed(http, page)])
    /\ UNCHANGED <<env, pc, mainIn, news_urls, executor, pre, waiter, finished_futures,
                   yielded, cur, current_count, results, news_list, ret,
                   progress_lock, counter_lock, completed_count, sink>>

\* a fetch that is tried a second time when it fails
TaskGetRetrying(t) ==
    /\ futures[t].pc = "get"
    /\ \E http \in site[futures[t].url], page \in pages[futures[t].url] :
        IF http = "ok" /\ ~page.raises
        THEN SetTask(t, [futures[t] EXCEPT !.pc = "ok", !.gets = @ + 1,
                                           !.page = <<page>>,
                                           !.fetched = TRUE,
                                           !.result = <<NewsRecord(futures[t], page)>>])
        ELSE SetTask(t, [futures[t] EXCEPT !.pc = IF futures[t].gets = 0 THEN "get"
                                                  ELSE "err",
                                           !.gets = @ + 1,
                                           !.page = Parsed(http, page)])
    /\ UNCHANGED <<env, pc, mainIn, news_urls, executor, pre, waiter, finished_futures,
                   yielded, cur, current_count, results, news_list, ret,
                   progress_lock, counter_lock, completed_count, sink>>

\* crawler.py:224-253, 258  requests.get, raise_for_status, the parsing and
\* the extraction: the record is built (fetched) or an exception is caught
TaskGet(t) ==
    /\ futures[t].pc = "get"
    /\ \E http \in site[futures[t].url], page \in pages[futures[t].url] :
        IF http = "ok" /\ ~page.raises
        THEN SetTask(t, [futures[t] EXCEPT !.pc = "ok", !.gets = @ + 1,
                                           !.page = <<page>>,
                                           !.fetched = TRUE,
                                           !.result = <<NewsRecord(futures[t], page)>>])
        ELSE SetTask(t, [futures[t] EXCEPT !.pc = "err", !.gets = @ + 1,
                                           !.page = Parsed(http, page)])
    /\ UNCHANGED <<env, pc, mainIn, news_urls, executor, pre, waiter, finished_futures,
                   yielded, cur, current_count, results, news_list, ret,
                   progress_lock, counter_lock, completed_count, sink>>

\* a waiter whose futures are handed over last finished first
FutureDoneReversed(t) ==
    finished_futures' = IF waiter THEN <<t>> \o finished_futures
                        ELSE finished_futures

\* the future of task t is set: as_completed's waiter hears of it
FutureDone(t) ==
    finished_futures' = IF waiter THEN Append(finished_futures, t)
                        ELSE finished_futures

\* the task whose future is set: where the order is kept, its place among the
\* tasks that have finished (nth) and whether it finished before as_completed
\* was called (early)
Done(t) ==
    [futures[t] EXCEPT !.pc = "finished",
                       !.nth = IF history THEN Cardinality(Finished) + 1 ELSE 0,
                       !.early = history /\ ~waiter]

\* a task that returns without its last message
TaskFinishSilent(t) ==
    /\ futures[t].pc \in {"ok_in", "err_in"}
    /\ progress_lock' = progress_lock \ {t}
    /\ sink' = sink
    /\ SetTask(t, Done(t))
    /\ FutureDone(t)
    /\ UNCHANGED <<env, pc, mainIn, news_urls, executor, pre, waiter, yielded, cur,
                   current_count, results, news_list, ret, counter_lock,
                   completed_count>>

\* crawler.py:255-256 and 261-262  the last message is out, the task returns
\* (news or None) and its future is set
TaskFinish(t) ==
    /\ futures[t].pc \in {"ok_in", "err_in"}
    /\ emit_deliver(t, TaskMsg(futures[t]))
    /\ SetTask(t, Done(t))
    /\ FutureDone(t)
    /\ UNCHANGED <<env, pc, mainIn, news_urls, executor, pre, waiter, yielded, cur,
                   current_count, results, news_list, ret, counter_lock,
                   completed_count>>

\* a wrapper that counts one record too many
SyncResultMiscounted(list) ==
    [success |-> TRUE, message |-> "crawl_done", news_list |-> list,
     crawled_count |-> Len(list) + 1]

(* ============ AsyncCrawlingService (server/main.py:62-105) ============= *)
\* server/main.py:93-98  what _run_sync_crawling wraps the crawl's list in
SyncResult(list) ==
    [success |-> TRUE, message |-> "crawl_done", news_list |-> list,
     crawled_count |-> Len(list)]
\* server/main.py:81-86  what the service returns from its except branch
ErrorResult ==
    [success |-> FALSE, message |-> "crawl_error", news_list |-> <<>>,
     crawled_count |-> 0]

\* the fetch tasks that have produced a record so far
Produced == {t \in Tasks : futures[t].pc = "finished" /\ futures[t].result # <<>>}

\* server/main.py:72-78  asyncio.wait_for(..., timeout=30.0): the 30 s elapse
\* while the crawl is still running in its thread; TimeoutError is raised
WaitTimeout ==
    /\ caller = "rest"
    /\ svc_pc = "awaiting"
    /\ pc # "returned"
    /\ svc_pc' = "timed_out"
    /\ completedAtTimeout' = Cardinality(Produced)
    /\ UNCHANGED <<response, site, caller, svc_result, crawlVars, extra>>

\* server/main.py:72-79  the crawl returned in time: its wrapped list is returned
ServiceReturn ==
    /\ caller = "rest"
    /\ svc_pc = "awaiting"
    /\ pc = "returned"
    /\ svc_result' = <<SyncResult(ret[1])>>
    /\ svc_pc' = "returned"
    /\ UNCHANGED <<response, site, caller, completedAtTimeout, crawlVars, extra>>

\* server/main.py:71, 80-86  after the timeout the with-block's exit joins the
\* crawl thread (shutdown(wait=True)), then the except branch returns
ServiceReturnError ==
    /\ caller = "rest"
    /\ svc_pc = "timed_out"
    /\ pc \in {"returned", "propagated"}
    /\ svc_result' = <<ErrorResult>>
    /\ svc_pc' = "returned_error"
    /\ UNCHANGED <<response, site, caller, completedAtTimeout, crawlVars, extra>>

\* server/main.py:99-105  an exception left crawl_ytn_news in time: the except
\* branch of _run_sync_crawling returns the error result, which is returned
SyncCrawlingExcept ==
    /\ caller = "rest"
    /\ svc_pc = "awaiting"
    /\ pc = "propagated"
    /\ svc_result' = <<ErrorResult>>
    /\ svc_pc' = "returned_error"
    /\ UNCHANGED <<response, site, caller, completedAtTimeout, crawlVars, extra>>

(* ========================= specifications ============================== *)
InitLocals ==
    /\ mainIn = FALSE
    /\ news_urls = <<>>
    /\ executor = "none"
    /\ futures = <<>>
    /\ pre = {}
    /\ waiter = FALSE
    /\ finished_futures = <<>>
    /\ yielded = {}
    /\ cur = 0
    /\ current_count = 0
    /\ results = <<>>
    /\ news_list = <<>>
    /\ ret = <<>>
    /\ progress_lock = {}
    /\ counter_lock = {}
    /\ completed_count = 0
    /\ sink = EmptyBag

\* crawl_ytn_news has been called and is at its first statement
InitCrawl ==
    /\ pc = "emit_connecting"
    /\ InitLocals

\* a page with a title element and a content element, each with one word,
\* that parses
PlainPage == Page(<< <<Chars(3)>> >>, << <<Chars(5)>> >>, FALSE)

\* no second crawl on the instance
OtherNone == [pc |-> "none", results |-> 0, current_count |-> 0]
\* one crawl, on an instance no other crawl is using
\* crawl_ytn_news called as a function: not through CrawlerThread.run, and
\* no handler waiting for its result
InitNoRun ==
    /\ WEB_SCRAPING_AVAILABLE = TRUE
    /\ run_pc = "none"
    /\ crawling_finished = <<>>
    /\ reply = <<>>

\* ---- clean_content called on its own ----
\* the longest text, in runs, and the longest run, in characters
MaxRuns == 4
MaxRun == 2
\* texts of exactly k runs: adjacent runs are of different classes, since a run
\* is maximal
RECURSIVE TextsOf(_)
TextsOf(k) ==
    IF k = 0 THEN {<<>>}
    ELSE {Append(t, <<c, n>>) : t \in TextsOf(k - 1), c \in {" ", "x"}, n \in 1..MaxRun}
\* a text is a sequence of maximal runs
Texts ==
    UNION {{t \in TextsOf(k) : \A i \in 1..(Len(t) - 1) : t[i][1] # t[i + 1][1]} :
              k \in 0..MaxRuns}

\* one call of clean_content, on the argument or on the value of the call before
Clean ==
    /\ Len(output) < 2
    /\ output' = Append(output, clean_content(IF output = <<>> THEN input
                                              ELSE output[Len(output)]))
    /\ UNCHANGED <<crawlVars, response, site, caller, svc_pc, svc_result,
                   completedAtTimeout, other, fault, pages, target_count,
                   callerVars, input, history, appVars>>

\* no BlogPostThread has been made
InitNoPost ==
    /\ PLAYWRIGHT_AVAILABLE = TRUE
    /\ use_parallel = FALSE
    /\ post_list = <<>>
    /\ blog = <<>>
    /\ post_pc = "none"
    /\ post_i = 0
    /\ posted_news = <<>>
    /\ success_count = 0
    /\ post_tasks = <<>>
    /\ batch_results = <<>>
    /\ post_lock = {}
    /\ post_sink = EmptyBag
    /\ posting_finished = <<>>
\* only the crawler is in use
InitNoWindow ==
    /\ news_data = <<>>
    /\ next_doc = 0

InitNoStore ==
    /\ db_available = TRUE
    /\ docs = <<>>
    /\ del_pc = "none"
    /\ deleted_count = 0
    /\ batch = {}
    /\ committed = <<>>
    /\ del_ret = <<>>

InitNoApp == InitNoPost /\ InitNoWindow /\ InitNoStore

\* no function is called on its own
InitNoCall ==
    /\ input = <<>>
    /\ output = <<>>
    /\ history = FALSE
    /\ InitNoApp

InitPlain ==
    /\ InitNoCall
    /\ other = OtherNone
    /\ fault = "none"
    /\ pages = [u \in DOMAIN site |-> {PlainPage}]
    /\ target_count = default_target_count
    /\ InitNoRun

\* every URL a listing can lead to
UrlsOf(items) == {news_url(a) : a \in items}
\* the network as it is: any GET can end in any outcome
AnyOutcome(urls) == [u \in urls |-> HttpOutcomes]

\* a crawl called directly (CrawlerThread.run, __main__), any listing answer
Init ==
    /\ response \in Responses
    /\ site = AnyOutcome(UrlsOf(Items))
    /\ InitCrawl
    /\ InitPlain
    /\ caller = "direct"
    /\ svc_pc = "none"
    /\ svc_result = <<>>
    /\ completedAtTimeout = 0

Next ==
    \/ MainEmitEnter \/ MainEmitExit \/ Discover \/ ReturnEmpty
    \/ ResetAcquire \/ ResetCounter \/ OpenPool \/ Submit
    \/ AsCompletedStart \/ NextFuture \/ TakeResult
    \/ CountAcquire \/ CountIncrement \/ Extend \/ Shutdown \/ Return
    \/ \E t \in Tasks : TaskStart(t)
    \/ \E t \in Tasks : TaskEmitEnter(t)
    \/ \E t \in Tasks : TaskBeginExit(t)
    \/ \E t \in Tasks : TaskGet(t)
    \/ \E t \in Tasks : TaskFinish(t)

Spec == Init /\ [][Next]_vars

\* the same crawl called by the REST service, under its 30 s wait
InitRest ==
    /\ response \in Responses
    /\ site = AnyOutcome(UrlsOf(Items))
    /\ InitCrawl
    /\ InitPlain
    /\ caller = "rest"
    /\ svc_pc = "awaiting"
    /\ svc_result = <<>>
    /\ completedAtTimeout = 0

NextRest == Next \/ WaitTimeout \/ ServiceReturn \/ ServiceReturnError

SpecRest == InitRest /\ [][NextRest]_vars

\* a crawl of one more article than the pool has workers, each with its own
\* URL (or of none: the listing request fails), against a site that answers
\* the GET of the first article and fails the others
PoolUrls == max_workers + 1
PoolItems == [i \in 1..PoolUrls |-> [mcd |-> "0101", join_key |-> i]]
PoolSite ==
    [u \in UrlsOf(Range(PoolItems)) |->
        IF u = news_url(PoolItems[1]) THEN {"ok"} ELSE {"http_error"}]

InitPool ==
    /\ response \in {[kind |-> "list", text |-> <<"[{}]">>, items |-> PoolItems]}
                    \cup FailedResponses
    /\ site = PoolSite
    /\ InitCrawl
    /\ InitPlain
    /\ caller = "direct"
    /\ svc_pc = "none"
    /\ svc_result = <<>>
    /\ completedAtTimeout = 0

SpecPool == InitPool /\ [][Next]_vars

\* fetch stubs that are not flaky: every GET of a URL ends the same way
Deterministic(urls) == [urls -> {{"ok"}, {"http_error"}}]

\* a crawl against deterministic fetch stubs
InitDet ==
    /\ response \in Responses
    /\ site \in Deterministic(UrlsOf(Items))
    /\ InitCrawl
    /\ InitPlain
    /\ caller = "direct"
    /\ svc_pc = "none"
    /\ svc_result = <<>>
    /\ completedAtTimeout = 0

SpecDet == InitDet /\ [][Next]_vars

\* a crawl in which one statement raises an exception it does not expect
InitFault ==
    /\ response \in FailedResponses \cup ListResponses(MaxListing - 1)
    /\ site = AnyOutcome(UrlsOf(Items))
    /\ InitCrawl
    /\ InitNoCall
    /\ InitNoRun
    /\ other = OtherNone
    /\ fault = "armed"
    /\ pages = [u \in DOMAIN site |-> {PlainPage}]
    /\ target_count = default_target_count
    /\ caller = "direct"
    /\ svc_pc = "none"
    /\ svc_result = <<>>
    /\ completedAtTimeout = 0

NextFault == Next \/ Raise \/ RaiseInLoop \/ FailShutdown \/ ReturnFailed

SpecFault == InitFault /\ [][NextFault]_vars

\* the texts a page's title element and content element can hold: none,
\* white space only, words in white space, one character more than the
\* persistence validator keeps
TitleTexts == { <<>>, <<Ws(3)>>, <<Ws(2), Chars(3), Ws(4), Chars(2), Ws(1)>>,
                <<Chars(title_max + 1)>> }
ContentTexts == { <<>>, <<Chars(5), Ws(2), Chars(1)>>, <<Chars(content_max + 1)>> }
\* the pages of the site: each selector finds no element or one with a text;
\* and a page on which parsing or an extractor raises
Pages ==
    { Page(t, c, FALSE) : t \in {<<>>} \cup {<<x>> : x \in TitleTexts},
                          c \in {<<>>} \cup {<<x>> : x \in ContentTexts} }
    \cup { Page(PlainPage.title, PlainPage.content, TRUE) }

\* a crawl of a listing of at most two articles whose pages can be any of Pages
InitPage ==
    /\ response \in FailedResponses \cup ListResponses(Cardinality(JoinKeys))
    /\ site = AnyOutcome(UrlsOf(Items))
    /\ InitCrawl
    /\ InitNoCall
    /\ InitNoRun
    /\ other = OtherNone
    /\ fault = "none"
    /\ pages = [u \in DOMAIN site |-> Pages]
    /\ target_count = default_target_count
    /\ caller = "direct"
    /\ svc_pc = "none"
    /\ svc_result = <<>>
    /\ completedAtTimeout = 0

SpecPage == InitPage /\ [][Next]_vars

\* a crawl on an instance whose target_count attribute was set by its user:
\* to a negative number, to zero, or left as it is
TargetCounts == {-1, 0, default_target_count}
InitConfig ==
    /\ response \in FailedResponses \cup ListResponses(Cardinality(JoinKeys))
    /\ site = AnyOutcome(UrlsOf(Items))
    /\ InitCrawl
    /\ InitNoCall
    /\ InitNoRun
    /\ other = OtherNone
    /\ fault = "none"
    /\ pages = [u \in DOMAIN site |-> {PlainPage}]
    /\ target_count \in TargetCounts
    /\ caller = "direct"
    /\ svc_pc = "none"
    /\ svc_result = <<>>
    /\ completedAtTimeout = 0

SpecConfig == InitConfig /\ [][Next]_vars

(* ------- CrawlerThread.run and the handlers of the crawl's result ------- *)
\* crawler.py:44-47  the libraries are missing: a message, an empty result
RunUnavailable ==
    /\ run_pc = "start"
    /\ ~WEB_SCRAPING_AVAILABLE
    /\ progress_lock = {}
    /\ sink' = sink (+) SetToBag({Msg("unavailable", 0, NoUrl, 0)})
    /\ crawling_finished' = Append(crawling_finished, <<>>)
    /\ run_pc' = "done"
    /\ UNCHANGED <<response, site, caller, svc_pc, svc_result, completedAtTimeout,
                   other, fault, pages, target_count, callVars, history, appVars, WEB_SCRAPING_AVAILABLE, reply,
                   pc, mainIn, news_urls, executor, futures, pre, waiter,
                   finished_futures, yielded, cur, current_count, results,
                   news_list, ret, progress_lock, counter_lock, completed_count>>

\* crawler.py:49-50  news_list = self.crawl_ytn_news(): the call
RunCall ==
    /\ run_pc = "start"
    /\ WEB_SCRAPING_AVAILABLE
    /\ run_pc' = "crawling"
    /\ pc' = "emit_connecting"
    /\ UNCHANGED <<response, site, caller, svc_pc, svc_result, completedAtTimeout,
                   other, fault, pages, target_count, callVars, history, appVars, WEB_SCRAPING_AVAILABLE,
                   crawling_finished, reply, mainIn, news_urls, executor, futures,
                   pre, waiter, finished_futures, yielded, cur, current_count,
                   results, news_list, ret, progress_lock, counter_lock,
                   completed_count, sink>>

\* crawler.py:51  self.crawling_finished.emit(news_list)
RunEmitFinished ==
    /\ run_pc = "crawling"
    /\ pc = "returned"
    /\ crawling_finished' = Append(crawling_finished, ret[1])
    /\ run_pc' = "done"
    /\ UNCHANGED <<response, site, caller, svc_pc, svc_result, completedAtTimeout,
                   other, fault, pages, target_count, callVars, history, appVars, WEB_SCRAPING_AVAILABLE, reply,
                   crawlVars>>

\* crawler.py:70  the statement of crawl_ytn_news before its try-block raises:
\* the exception leaves crawl_ytn_news
RaiseOutsideTry ==
    /\ fault = "armed"
    /\ pc = "emit_connecting"
    /\ ~mainIn
    /\ fault' = "escaped"
    /\ pc' = "propagated"
    /\ UNCHANGED <<response, site, caller, svc_pc, svc_result, completedAtTimeout,
                   other, pages, target_count, callVars, history, appVars, callerVars, mainIn, news_urls,
                   executor, futures, pre, waiter, finished_futures, yielded, cur,
                   current_count, results, news_list, ret, progress_lock,
                   counter_lock, completed_count, sink>>

\* the handler of run without its emit
RunExceptSilent ==
    /\ run_pc = "crawling"
    /\ pc = "propagated"
    /\ run_pc' = "done"
    /\ UNCHANGED <<response, site, caller, svc_pc, svc_result, completedAtTimeout,
                   other, fault, pages, target_count, callVars, history, appVars, WEB_SCRAPING_AVAILABLE,
                   crawling_finished, reply, crawlVars>>

\* crawler.py:52-56  except Exception: a message, an empty result
RunExcept ==
    /\ run_pc = "crawling"
    /\ pc = "propagated"
    /\ progress_lock = {}
    /\ sink' = sink (+) SetToBag({Msg("run_error", 0, NoUrl, 0)})
    /\ crawling_finished' = Append(crawling_finished, <<>>)
    /\ run_pc' = "done"
    /\ UNCHANGED <<response, site, caller, svc_pc, svc_result, completedAtTimeout,
                   other, fault, pages, target_count, callVars, history, appVars, WEB_SCRAPING_AVAILABLE, reply,
                   pc, mainIn, news_urls, executor, futures, pre, waiter,
                   finished_futures, yielded, cur, current_count, results,
                   news_list, ret, progress_lock, counter_lock, completed_count>>

\* what a handler told the user (success: an information box or a response
\* with success true) and the records it handed to the store
Reply(success, persisted) == [success |-> success, persisted |-> persisted]

\* ui/main_window.py:411-440  on_crawling_finished(news_list): a non-empty
\* list is stored record by record and reported as a success, an empty one
\* is reported with a warning box
OnCrawlingFinished ==
    /\ caller = "gui"
    /\ Len(reply) < Len(crawling_finished)
    /\ LET news == crawling_finished[Len(reply) + 1]
       IN  reply' = Append(reply, IF news # <<>> THEN Reply(TRUE, news)
                                  ELSE Reply(FALSE, <<>>))
    /\ UNCHANGED <<response, site, caller, svc_pc, svc_result, completedAtTimeout,
                   other, fault, pages, target_count, callVars, history, appVars, WEB_SCRAPING_AVAILABLE, run_pc,
                   crawling_finished, crawlVars>>

\* server/main.py:538-555  trigger_crawling: the service's result is stored
\* if it is a success with a non-empty list, and answered with its own
\* success flag
TriggerCrawling ==
    /\ caller = "rest"
    /\ svc_result # <<>>
    /\ reply = <<>>
    /\ LET result == svc_result[1]
       IN  reply' = <<Reply(result.success,
                            IF result.success /\ result.news_list # <<>>
                            THEN result.news_list ELSE <<>>)>>
    /\ UNCHANGED <<response, site, caller, svc_pc, svc_result, completedAtTimeout,
                   other, fault, pages, target_count, callVars, history, appVars, WEB_SCRAPING_AVAILABLE, run_pc,
                   crawling_finished, crawlVars>>

\* a crawl started from the window (CrawlerThread.start, with or without the
\* libraries, with or without an exception to come) or by a request to the
\* service
InitCallers ==
    /\ response \in FailedResponses \cup ListResponses(Cardinality(JoinKeys))
    /\ site = AnyOutcome(UrlsOf(Items))
    /\ InitLocals
    /\ InitNoCall
    /\ other = OtherNone
    /\ pages = [u \in DOMAIN site |-> {PlainPage}]
    /\ target_count = default_target_count
    /\ crawling_finished = <<>>
    /\ reply = <<>>
    /\ svc_result = <<>>
    /\ completedAtTimeout = 0
    /\ caller \in {"gui", "rest"}
    /\ IF caller = "gui"
       THEN /\ WEB_SCRAPING_AVAILABLE \in BOOLEAN
            /\ fault \in {"none", "armed"}
            /\ run_pc = "start"
            /\ pc = "not_called"
            /\ svc_pc = "none"
       ELSE /\ WEB_SCRAPING_AVAILABLE = TRUE
            /\ fault \in {"none", "armed"}
            /\ run_pc = "none"
            /\ pc = "emit_connecting"
            /\ svc_pc = "awaiting"

NextCallers ==
    NextRest \/ RunUnavailable \/ RunCall \/ RunEmitFinished \/ RaiseOutsideTry
    \/ RunExcept \/ OnCrawlingFinished \/ TriggerCrawling \/ SyncCrawlingExcept

SpecCallers == InitCallers /\ [][NextCallers]_vars

\* a crawl from its call to the end of its submit loop, on a listing of up to
\* one more item than get_news_urls takes, each item with its own join_key;
\* the tasks it submits are not followed
LongListing == [i \in 1..(listing_cap + 1) |-> [mcd |-> "0101", join_key |-> i]]
InitListing ==
    /\ response \in {[kind |-> "list", text |-> <<"[{}]">>, items |-> Prefix(LongListing, n)] :
                        n \in 0..Len(LongListing)}
    /\ site = [u \in UrlsOf(Range(LongListing)) |-> {"ok"}]
    /\ InitCrawl
    /\ InitPlain
    /\ caller = "direct"
    /\ svc_pc = "none"
    /\ svc_result = <<>>
    /\ completedAtTimeout = 0

NextListing ==
    MainEmitEnter \/ MainEmitExit \/ Discover \/ ReturnEmpty \/ ResetAcquire
    \/ ResetCounter \/ OpenPool \/ Submit

SpecListing == InitListing /\ [][NextListing]_vars

\* a crawl of which the order in which its tasks finish is kept
InitOrder ==
    /\ response \in FailedResponses \cup ListResponses(Cardinality(JoinKeys) + 1)
    /\ site = AnyOutcome(UrlsOf(Items))
    /\ InitCrawl
    /\ input = <<>>
    /\ output = <<>>
    /\ history = TRUE
    /\ InitNoApp
    /\ other = OtherNone
    /\ fault = "none"
    /\ pages = [u \in DOMAIN site |-> {PlainPage}]
    /\ target_count = default_target_count
    /\ InitNoRun
    /\ caller = "direct"
    /\ svc_pc = "none"
    /\ svc_result = <<>>
    /\ completedAtTimeout = 0

SpecOrder == InitOrder /\ [][Next]_vars

\* a crawl whose threads are scheduled: as long as some thread can take a
\* step, one does. A thread at its GET can always take its step, because
\* requests.get is called with timeout=5 (crawler.py:225) and returns or
\* raises; so can the orchestrator at the POST (timeout=10, crawler.py:157).
InitLive ==
    /\ response \in FailedResponses \cup ListResponses(Cardinality(JoinKeys) + 1)
    /\ site = AnyOutcome(UrlsOf(Items))
    /\ InitCrawl
    /\ InitPlain
    /\ caller = "direct"
    /\ svc_pc = "none"
    /\ svc_result = <<>>
    /\ completedAtTimeout = 0

SpecLive == InitLive /\ [][Next]_vars /\ WF_vars(Next)

(* ---- functions of the crawler called on their own ---- *)
\* an instance that has been constructed and on which no crawl runs
InitIdle ==
    /\ response = CHOOSE r \in FailedResponses : r.kind = "request_error"
    /\ site = <<>>
    /\ pc = "not_called"
    /\ InitLocals
    /\ InitNoRun
    /\ other = OtherNone
    /\ fault = "none"
    /\ pages = <<>>
    /\ target_count = default_target_count
    /\ caller = "direct"
    /\ svc_pc = "none"
    /\ svc_result = <<>>
    /\ completedAtTimeout = 0

\* clean_content(content) for a text, the empty string or None, and then
\* clean_content of what it returned
InitClean ==
    /\ InitIdle
    /\ input \in Texts \cup {None}
    /\ output = <<>>
    /\ history = FALSE
    /\ InitNoApp

SpecClean == InitClean /\ [][Clean]_vars

\* ---- extract_author(content) ----
\* A content is a text whose runs are: white space, lower-case Latin letters
\* ("a"), the literal YTN, one Hangul syllable (a run of one character, named
\* by its romanisation), and any other characters ("x").
Hangul ==
    {"kim", "chwi", "jae", "jin", "tim", "bu", "pyeon", "jip", "je", "jak",
     "gi", "hoek", "ip", "ni", "da", "yeot", "seup", "ja"}
Word(w) == [i \in DOMAIN w |-> <<w[i], 1>>]
YTN == <<"YTN", 3>>
StartsWith(s, p, w) == p + Len(w) - 1 <= Len(s) /\ SubSeq(s, p, p + Len(w) - 1) = w
EndsWith(s, w) == Len(w) <= Len(s) /\ SubSeq(s, Len(s) - Len(w) + 1, Len(s)) = w
Least(S) == CHOOSE i \in S : \A j \in S : i <= j
Greatest(S) == CHOOSE i \in S : \A j \in S : j <= i

\* crawler.py:350  (?=입니다|였습니다|습니다|기자|\s|$) at position p of s
lookahead_words ==
    {Word(<<"ip", "ni", "da">>), Word(<<"yeot", "seup", "ni", "da">>),
     Word(<<"seup", "ni", "da">>), Word(<<"gi", "ja">>)}
Lookahead(s, p) ==
    \/ p > Len(s)
    \/ p <= Len(s) /\ s[p][1] = " "
    \/ \E w \in lookahead_words : StartsWith(s, p, w)

\* crawler.py:350-351  YTN(?:\s+[a-z]+)?\s+ matched from run i of s: the position
\* after it, where the group must start, or 0 when it does not match there
GroupStart(s, i) ==
    IF i + 1 <= Len(s) /\ s[i] = YTN /\ s[i + 1][1] = " "
    THEN IF i + 3 <= Len(s) /\ s[i + 2][1] = "a" /\ s[i + 3][1] = " "
         THEN i + 4 ELSE i + 2
    ELSE 0
\* the lengths ([가-힣]{2,4}) the group can take at p; pattern 1 has the
\* lookahead after it, pattern 2 has not
GroupLens(pattern, s, p) ==
    {n \in 2..4 :
        /\ p + n - 1 <= Len(s)
        /\ \A k \in p..(p + n - 1) : s[k][1] \in Hangul
        /\ pattern = 1 => Lookahead(s, p + n)}
\* group(1) of the match that starts at run i (the quantifier is greedy), or
\* <<>> when the pattern does not match there
MatchAt(pattern, s, i) ==
    LET p == GroupStart(s, i) IN
    IF p = 0 \/ GroupLens(pattern, s, p) = {} THEN <<>>
    ELSE SubSeq(s, p, p + Greatest(GroupLens(pattern, s, p)) - 1)
\* crawler.py:356  re.search: the leftmost match
search(pattern, s) ==
    LET hits == {i \in DOMAIN s : MatchAt(pattern, s, i) # <<>>} IN
    IF hits = {} THEN <<>> ELSE MatchAt(pattern, s, Least(hits))

\* crawler.py:368
suffixes ==
    <<Word(<<"ip", "ni", "da">>), Word(<<"yeot", "seup", "ni", "da">>),
      Word(<<"seup", "ni", "da">>), Word(<<"gi", "ja", "ip", "ni", "da">>),
      Word(<<"gi", "ja">>), Word(<<"ip">>), Word(<<"yeot">>)>>
\* crawler.py:370-374  the first suffix of the list the name ends with is cut
strip_suffix(author) ==
    LET ks == {k \in DOMAIN suffixes : EndsWith(author, suffixes[k])} IN
    IF ks = {} THEN author
    ELSE SubSeq(author, 1, Len(author) - Len(suffixes[Least(ks)]))
\* crawler.py:377
forbidden_words ==
    {Word(<<"chwi", "jae">>), Word(<<"chwi", "jae", "jin">>),
     Word(<<"chwi", "jae", "tim">>), Word(<<"chwi", "jae", "bu">>),
     Word(<<"pyeon", "jip">>), Word(<<"je", "jak">>), Word(<<"gi", "hoek">>)}
\* crawler.py:383
ValidName(author) ==
    /\ 2 <= Len(author) /\ Len(author) <= 4
    /\ \A k \in DOMAIN author : author[k][1] \in Hangul

\* crawler.py:354-360  the first pattern that matches gives the name
first_match(content) ==
    IF search(1, content) # <<>> THEN search(1, content) ELSE search(2, content)

\* extract_author without the check against forbidden_words
extract_author_unfiltered(content) ==
    LET local_author == strip_suffix(first_match(content)) IN
    IF first_match(content) = <<>> THEN None
    ELSE IF ValidName(local_author) THEN local_author ELSE None

\* crawler.py:341-388
extract_author(content) ==
    LET local_author == strip_suffix(first_match(content)) IN
    IF first_match(content) = <<>> THEN None
    ELSE IF local_author \in forbidden_words THEN None
    ELSE IF ValidName(local_author) THEN local_author ELSE None

\* the contents extract_author is called on: what precedes the name, the
\* syllables of the name and of what is written after it, and the rest
MaxStem == 3
Contents ==
    LET Heads ==
            {<<>>, <<Chars(1)>>, <<YTN>>, <<YTN, Ws(1)>>,
             <<YTN, Ws(2), <<"a", 2>>, Ws(1)>>, <<YTN, Ws(1), <<"a", 1>> >>,
             <<Chars(1), YTN, Ws(1)>>, <<YTN, Chars(1), YTN, Ws(1)>>}
        Stems ==
            UNION {[1..n -> {<<c, 1>> : c \in {"kim", "chwi", "jae"}}] : n \in 0..MaxStem}
        Endings ==
            {<<>>, Word(<<"jin">>), Word(<<"tim">>), Word(<<"bu">>),
             Word(<<"pyeon", "jip">>), Word(<<"je", "jak">>), Word(<<"gi", "hoek">>)}
                \cup Range(suffixes)
        Rests == {<<>>, <<Ws(1)>>, <<Chars(1)>>}
    IN  {h \o s \o g \o r : h \in Heads, s \in Stems, g \in Endings, r \in Rests}

\* one call of extract_author
Author ==
    /\ output = <<>>
    /\ output' = <<extract_author(input)>>
    /\ UNCHANGED <<crawlVars, response, site, caller, svc_pc, svc_result,
                   completedAtTimeout, other, fault, pages, target_count,
                   callerVars, input, history, appVars>>

InitAuthor ==
    /\ InitIdle
    /\ input \in Contents
    /\ output = <<>>
    /\ history = FALSE
    /\ InitNoApp

SpecAuthor == InitAuthor /\ [][Author]_vars

(* ---- the routes of the REST server (server/main.py:180-805) ---- *)
\* a path is the sequence of its segments; "{news_id}" in the path of a route
\* is a parameter, which takes any one segment
Route(method, path, endpoint) == [method |-> method, path |-> path, endpoint |-> endpoint]
\* the routes, in the order the decorators register them
routes ==
    <<Route("GET", <<>>, "root"),                                                  \* :180
      Route("GET", <<"health">>, "health_check"),                                  \* :198
      Route("GET", <<"ping">>, "ping"),                                            \* :215
      Route("GET", <<"status">>, "get_status"),                                    \* :223
      Route("GET", <<"api", "news">>, "get_all_news"),                             \* :250
      Route("GET", <<"api", "news", "{news_id}">>, "get_news_by_id"),              \* :267
      Route("POST", <<"api", "news">>, "create_news"),                             \* :289
      Route("PUT", <<"api", "news", "{news_id}">>, "update_news"),                 \* :308
      Route("DELETE", <<"api", "news", "{news_id}">>, "delete_news"),              \* :344
      Route("GET", <<"api", "news", "unposted">>, "get_unposted_news"),            \* :379
      Route("PATCH", <<"api", "news", "{news_id}", "posted">>, "mark_as_posted"),  \* :394
      Route("GET", <<"api", "news", "search">>, "search_news"),                    \* :425
      Route("POST", <<"api", "news", "bulk">>, "create_multiple_news"),            \* :444
      Route("PUT", <<"api", "news", "bulk">>, "update_multiple_news"),             \* :472
      Route("GET", <<"api", "news", "stats">>, "get_news_statistics"),             \* :502
      Route("GET", <<"api", "posting", "stats">>, "get_posting_statistics"),       \* :516
      Route("POST", <<"api", "crawl", "trigger">>, "trigger_crawling"),            \* :532
      Route("GET", <<"api", "crawl", "status">>, "get_crawling_status"),           \* :562
      Route("POST", <<"api", "blog", "post">>, "trigger_blog_posting"),            \* :578
      Route("GET", <<"api", "blog", "status">>, "get_blog_posting_status"),        \* :627
      Route("GET", <<"api", "info">>, "get_api_info"),                             \* :643
      Route("GET", <<"api", "version">>, "get_version"),                           \* :698
      Route("GET", <<"api", "config">>, "get_config"),                             \* :716
      Route("GET", <<"api", "metrics">>, "get_metrics"),                           \* :737
      Route("POST", <<"api", "test", "news">>, "create_test_news"),                \* :775
      Route("DELETE", <<"api", "test", "cleanup">>, "cleanup_test_data")>>         \* :804

\* the path of a request matches the path of a route
PathMatches(pattern, path) ==
    /\ Len(pattern) = Len(path)
    /\ \A i \in DOMAIN pattern : pattern[i] = "{news_id}" \/ pattern[i] = path[i]
\* the router: the first route registered whose path and method match the
\* request serves it; 405 when only paths match, 404 when none does
dispatch(request) ==
    LET full == {k \in DOMAIN routes :
                    /\ routes[k].method = request.method
                    /\ PathMatches(routes[k].path, request.path)}
        partial == {k \in DOMAIN routes : PathMatches(routes[k].path, request.path)}
    IN  IF full # {} THEN routes[Least(full)].endpoint
        ELSE IF partial # {} THEN "405" ELSE "404"

\* the requests: every method on every path of a route, an identifier in the
\* place of the parameter, and on a path of no route
Requests ==
    LET Paths ==
            {[i \in DOMAIN routes[k].path |->
                IF routes[k].path[i] = "{news_id}" THEN "n1" ELSE routes[k].path[i]] :
                    k \in DOMAIN routes}
            \cup {<<"api", "nowhere">>}
    IN  [method : {"GET", "POST", "PUT", "PATCH", "DELETE"}, path : Paths]

\* one request is routed
Dispatch ==
    /\ output = <<>>
    /\ output' = <<dispatch(input)>>
    /\ UNCHANGED <<crawlVars, response, site, caller, svc_pc, svc_result,
                   completedAtTimeout, other, fault, pages, target_count,
                   callerVars, input, history, appVars>>

InitRouter ==
    /\ InitIdle
    /\ input \in Requests
    /\ output = <<>>
    /\ history = FALSE
    /\ InitNoApp

SpecRouter == InitRouter /\ [][Dispatch]_vars

(* ============ BlogPostThread (core/blog_poster.py:46-237) ============== *)
\* what the steps of the poster leave alone
crawlerAll ==
    <<crawlVars, response, site, caller, svc_pc, svc_result, completedAtTimeout,
      other, fault, pages, target_count, callerVars, callVars, history>>
crawlerSide == <<crawlerAll, winVars, storeVars>>

\* blog_poster.py:55  news_list[:9]
post_cap == 9
\* blog_poster.py:130 and :162  max_workers = 3
post_max_workers == 3

\* a news dictionary, and the copy of it that is put into posted_news
News(i) == [id |-> i, posted_to_blog |-> FALSE, blog_url |-> <<>>]
BlogUrl(i) == <<"https://blog.naver.com/", i>>
\* blog_poster.py:98-101 and :214-217  news.copy() with the three keys set
Updated(news, url) == [news EXCEPT !.posted_to_blog = TRUE, !.blog_url = url]
\* a message emitted with progress_updated by thread `by` (0: the QThread)
PostMsg(kind, by, n, m) == [kind |-> kind, by |-> by, n |-> n, m |-> m]
Emit(msg) == post_sink' = post_sink (+) SetToBag({msg})

\* blog_poster.py:131-132  the batches: batch k (from 0) holds the items
\* k*3+1 .. k*3+3 of self.news_list
Batch(k) == {i \in DOMAIN post_list : (i - 1) \div post_max_workers = k}
Batches == (Len(post_list) + post_max_workers - 1) \div post_max_workers
\* the tasks a pool thread is executing
Posting == {t \in DOMAIN post_tasks : post_tasks[t].pc \notin {"none", "finished", "collected"}}
SetPost(t, f) == post_tasks' = [post_tasks EXCEPT ![t] = f]

\* blog_poster.py:62-64  Playwright is missing: a message, and run returns
PostRunUnavailable ==
    /\ post_pc = "start"
    /\ ~PLAYWRIGHT_AVAILABLE
    /\ Emit(PostMsg("unavailable", 0, 0, 0))
    /\ post_pc' = "done"
    /\ UNCHANGED <<crawlerSide, PLAYWRIGHT_AVAILABLE, use_parallel, post_list, blog,
                   post_i, posted_news, success_count, post_tasks, batch_results,
                   post_lock, posting_finished>>

\* blog_poster.py:66-70  the method of the mode is called
PostRunCall ==
    /\ post_pc = "start"
    /\ PLAYWRIGHT_AVAILABLE
    /\ post_pc' = IF use_parallel THEN "par_start" ELSE "seq_start"
    /\ UNCHANGED <<crawlerSide, PLAYWRIGHT_AVAILABLE, use_parallel, post_list, blog,
                   post_i, posted_news, success_count, post_tasks, batch_results,
                   post_lock, post_sink, posting_finished>>

\* blog_poster.py:77-87  the browser is started; when sync_playwright() raises
\* the except clause of run (:71-73), when the launch raises that of the
\* method (:119-121) emits a message and the empty list
SeqLaunch ==
    /\ post_pc = "seq_start"
    /\ \E outcome \in {"ok", "playwright_error", "browser_error"} :
        IF outcome = "ok"
        THEN /\ Emit(PostMsg("browser_starting", 0, 0, 0))
             /\ post_pc' = "seq_loop"
             /\ UNCHANGED posting_finished
        ELSE /\ post_sink' = post_sink (+) SetToBag({PostMsg("browser_starting", 0, 0, 0)})
                                        (+) SetToBag({PostMsg(outcome, 0, 0, 0)})
             /\ posting_finished' = Append(posting_finished, <<>>)
             /\ post_pc' = "done"
    /\ UNCHANGED <<crawlerSide, PLAYWRIGHT_AVAILABLE, use_parallel, post_list, blog,
                   post_i, posted_news, success_count, post_tasks, batch_results,
                   post_lock>>

\* blog_poster.py:91-112  one item of the sequential loop
SeqPost ==
    /\ post_pc = "seq_loop"
    /\ post_i < Len(post_list)
    /\ LET news == post_list[post_i + 1] IN
       \E outcome \in blog[news.id] \ {"close_error"} :
        IF outcome = "ok"
        THEN /\ posted_news' = Append(posted_news, Updated(news, BlogUrl(news.id)))
             /\ success_count' = success_count + 1
             /\ Emit(PostMsg("posted", 0, post_i + 1, Len(post_list)))
        ELSE /\ Emit(PostMsg("post_failed", 0, post_i + 1, Len(post_list)))
             /\ UNCHANGED <<posted_news, success_count>>
    /\ post_i' = post_i + 1
    /\ UNCHANGED <<crawlerSide, PLAYWRIGHT_AVAILABLE, use_parallel, post_list, blog,
                   post_pc, post_tasks, batch_results, post_lock, posting_finished>>

\* blog_poster.py:114-117  the completion message and the signal
SeqFinish ==
    /\ post_pc = "seq_loop"
    /\ post_i = Len(post_list)
    /\ Emit(PostMsg("complete", 0, success_count, Len(post_list)))
    /\ posting_finished' = Append(posting_finished, posted_news)
    /\ post_pc' = "done"
    /\ UNCHANGED <<crawlerSide, PLAYWRIGHT_AVAILABLE, use_parallel, post_list, blog,
                   post_i, posted_news, success_count, post_tasks, batch_results,
                   post_lock>>

\* blog_poster.py:125-132  the parallel method starts
ParStart ==
    /\ post_pc = "par_start"
    /\ Emit(PostMsg("parallel_starting", 0, 0, 0))
    /\ success_count' = 0
    /\ posted_news' = <<>>
    /\ post_i' = 0
    /\ post_pc' = IF Batches = 0 THEN "par_finish" ELSE "par_batch"
    /\ UNCHANGED <<crawlerSide, PLAYWRIGHT_AVAILABLE, use_parallel, post_list, blog,
                   post_tasks, batch_results, post_lock, posting_finished>>

\* a batch of the whole list
ParSubmitAll ==
    /\ post_pc = "par_batch"
    /\ Emit(PostMsg("batch", 0, post_i + 1, Batches))
    /\ post_tasks' = [t \in DOMAIN post_tasks |->
                        [post_tasks[t] EXCEPT !.pc = "queued", !.runs = @ + 1]]
    /\ batch_results' = <<>>
    /\ post_pc' = "par_collect"
    /\ UNCHANGED <<crawlerSide, PLAYWRIGHT_AVAILABLE, use_parallel, post_list, blog,
                   post_i, posted_news, success_count, post_lock, posting_finished>>

\* blog_poster.py:136-139 and :162-168  the batch message, and one task is
\* submitted for each item of the batch; the pool has a thread for each
ParSubmit ==
    /\ post_pc = "par_batch"
    /\ Emit(PostMsg("batch", 0, post_i + 1, Batches))
    /\ post_tasks' = [t \in DOMAIN post_tasks |->
                        IF t \in Batch(post_i)
                        THEN [post_tasks[t] EXCEPT !.pc = "queued", !.runs = @ + 1]
                        ELSE post_tasks[t]]
    /\ batch_results' = <<>>
    /\ post_pc' = "par_collect"
    /\ UNCHANGED <<crawlerSide, PLAYWRIGHT_AVAILABLE, use_parallel, post_list, blog,
                   post_i, posted_news, success_count, post_lock, posting_finished>>

\* blog_poster.py:192-193  with self.progress_lock: the task's first message
WorkerStart(t) ==
    /\ post_tasks[t].pc = "queued"
    /\ post_lock = {}
    /\ post_lock' = {t}
    /\ SetPost(t, [post_tasks[t] EXCEPT !.pc = "start_in"])
    /\ UNCHANGED <<crawlerSide, PLAYWRIGHT_AVAILABLE, use_parallel, post_list, blog,
                   post_pc, post_i, posted_news, success_count, batch_results,
                   post_sink, posting_finished>>

WorkerStartExit(t) ==
    /\ post_tasks[t].pc = "start_in"
    /\ Emit(PostMsg("task_start", t, 0, 0))
    /\ post_lock' = post_lock \ {t}
    /\ SetPost(t, [post_tasks[t] EXCEPT !.pc = "posting"])
    /\ UNCHANGED <<crawlerSide, PLAYWRIGHT_AVAILABLE, use_parallel, post_list, blog,
                   post_pc, post_i, posted_news, success_count, batch_results,
                   posting_finished>>

\* blog_poster.py:196-211  the task's browser is started and post_single_news
\* is called, which emits its own messages (:242, :269, :275, :311) with no
\* lock; "raise": sync_playwright() or the launch raises before it is called
WorkerPost(t) ==
    /\ post_tasks[t].pc = "posting"
    /\ \E outcome \in blog[post_list[t].id] \ {"close_error"} :
        /\ SetPost(t, [post_tasks[t] EXCEPT
                !.pc = CASE outcome = "ok" -> "ok" [] outcome = "fail" -> "fail"
                         [] OTHER -> "err",
                !.result = IF outcome = "ok" THEN BlogUrl(post_list[t].id) ELSE <<>>])
        /\ IF outcome = "raise" THEN UNCHANGED post_sink
           ELSE Emit(PostMsg("editor", t, 0, 0))
    /\ UNCHANGED <<crawlerSide, PLAYWRIGHT_AVAILABLE, use_parallel, post_list, blog,
                   post_pc, post_i, posted_news, success_count, batch_results,
                   post_lock, posting_finished>>

\* blog_poster.py:219, :225, :235  with self.progress_lock:
WorkerLock(t) ==
    /\ post_tasks[t].pc \in {"ok", "fail", "err"}
    /\ post_lock = {}
    /\ post_lock' = {t}
    /\ SetPost(t, [post_tasks[t] EXCEPT !.pc = CASE @ = "ok" -> "ok_in"
                                                  [] @ = "fail" -> "fail_in"
                                                  [] OTHER -> "err_in"])
    /\ UNCHANGED <<crawlerSide, PLAYWRIGHT_AVAILABLE, use_parallel, post_list, blog,
                   post_pc, post_i, posted_news, success_count, batch_results,
                   post_sink, posting_finished>>

\* blog_poster.py:219-226  inside the lock: the copy is appended (success) and
\* the message emitted; the lock is released and the task goes on to return
\* through the finally clause, or returns None from the except clause
WorkerFinish(t) ==
    /\ post_tasks[t].pc \in {"ok_in", "fail_in", "err_in"}
    /\ posted_news' = IF post_tasks[t].pc = "ok_in"
                      THEN Append(posted_news, Updated(post_list[t], post_tasks[t].result))
                      ELSE posted_news
    /\ Emit(PostMsg(IF post_tasks[t].pc = "ok_in" THEN "task_done" ELSE "task_failed",
                    t, 0, 0))
    /\ post_lock' = post_lock \ {t}
    /\ SetPost(t, [post_tasks[t] EXCEPT
            !.pc = IF @ = "err_in" THEN "finished" ELSE "closing"])
    /\ UNCHANGED <<crawlerSide, PLAYWRIGHT_AVAILABLE, use_parallel, post_list, blog,
                   post_pc, post_i, success_count, batch_results, posting_finished>>

\* blog_poster.py:229-237  finally: browser.close(), after which the value of
\* the return statement is the task's result; when closing raises, the
\* exception replaces the return and the except clause returns None
WorkerClose(t) ==
    /\ post_tasks[t].pc = "closing"
    /\ \E raises \in {FALSE} \cup {"close_error" \in blog[post_list[t].id]} :
        SetPost(t, IF raises
                   THEN [post_tasks[t] EXCEPT !.pc = "err", !.result = <<>>]
                   ELSE [post_tasks[t] EXCEPT !.pc = "finished"])
    /\ UNCHANGED <<crawlerSide, PLAYWRIGHT_AVAILABLE, use_parallel, post_list, blog,
                   post_pc, post_i, posted_news, success_count, batch_results,
                   post_lock, post_sink, posting_finished>>

\* blog_poster.py:171-179  as_completed yields a finished task: its result is
\* appended and the progress of the batch emitted inside the lock
ParCollect ==
    /\ post_pc = "par_collect"
    /\ post_lock = {}
    /\ \E t \in Batch(post_i) :
        /\ post_tasks[t].pc = "finished"
        /\ batch_results' = Append(batch_results, post_tasks[t].result)
        /\ Emit(PostMsg("batch_progress", 0,
                        Cardinality({i \in DOMAIN batch_results' : batch_results'[i] # <<>>}),
                        Cardinality(Batch(post_i))))
        /\ SetPost(t, [post_tasks[t] EXCEPT !.pc = "collected"])
    /\ UNCHANGED <<crawlerSide, PLAYWRIGHT_AVAILABLE, use_parallel, post_list, blog,
                   post_pc, post_i, posted_news, success_count, post_lock,
                   posting_finished>>

\* blog_poster.py:141-150  the pool is left, the successes of the batch are
\* counted, and the next batch follows after the wait
ParBatchDone ==
    /\ post_pc = "par_collect"
    /\ \A t \in Batch(post_i) : post_tasks[t].pc = "collected"
    /\ success_count' = success_count
            + Cardinality({i \in DOMAIN batch_results : batch_results[i] # <<>>})
    /\ post_i' = post_i + 1
    /\ IF post_i < Batches - 1
       THEN /\ Emit(PostMsg("waiting", 0, 0, 0))
            /\ post_pc' = "par_batch"
       ELSE /\ UNCHANGED post_sink
            /\ post_pc' = "par_finish"
    /\ UNCHANGED <<crawlerSide, PLAYWRIGHT_AVAILABLE, use_parallel, post_list, blog,
                   posted_news, post_tasks, batch_results, post_lock, posting_finished>>

\* blog_poster.py:152-153  the completion message and the signal
ParFinish ==
    /\ post_pc = "par_finish"
    /\ Emit(PostMsg("complete", 0, success_count, Len(post_list)))
    /\ posting_finished' = Append(posting_finished, posted_news)
    /\ post_pc' = "done"
    /\ UNCHANGED <<crawlerSide, PLAYWRIGHT_AVAILABLE, use_parallel, post_list, blog,
                   post_i, posted_news, success_count, post_tasks, batch_results,
                   post_lock>>

\* blog_poster.py:171  as_completed(..., timeout=600) raises TimeoutError
\* while a task of the batch is still running
ParTimeout ==
    /\ post_pc = "par_collect"
    /\ \E t \in Batch(post_i) : post_tasks[t].pc \notin {"finished", "collected"}
    /\ post_pc' = "par_timed_out"
    /\ UNCHANGED <<crawlerSide, PLAYWRIGHT_AVAILABLE, use_parallel, post_list, blog,
                   post_i, posted_news, success_count, post_tasks, batch_results,
                   post_lock, post_sink, posting_finished>>

\* blog_poster.py:162 and :155-156  the end of the with-block joins the tasks,
\* then the except clause emits a message and the list as it is
ParExcept ==
    /\ post_pc = "par_timed_out"
    /\ Posting = {}
    /\ Emit(PostMsg("parallel_error", 0, 0, 0))
    /\ posting_finished' = Append(posting_finished, posted_news)
    /\ post_pc' = "done"
    /\ UNCHANGED <<crawlerSide, PLAYWRIGHT_AVAILABLE, use_parallel, post_list, blog,
                   post_i, posted_news, success_count, post_tasks, batch_results,
                   post_lock>>

\* the lists handed to the thread: up to MaxNews items that can end in any
\* way ("close_error": the browser of the item's task may fail to close), and
\* lists of post_cap and post_cap + 1 items of which items 1, 2 and 5
\* are posted and the others fail
MaxNews == 3
InitPost ==
    /\ InitIdle
    /\ input = <<>>
    /\ output = <<>>
    /\ history = FALSE
    /\ InitNoWindow
    /\ InitNoStore
    /\ PLAYWRIGHT_AVAILABLE \in BOOLEAN
    /\ use_parallel \in BOOLEAN
    /\ \E n \in (0..MaxNews) \cup {post_cap, post_cap + 1} :
        /\ post_list = SliceTo([i \in 1..n |-> News(i)], post_cap)
        /\ blog = [i \in 1..n |->
                      IF n <= MaxNews THEN {"ok", "fail", "raise", "close_error"}
                      ELSE IF i \in {1, 2, 5} THEN {"ok"} ELSE {"fail"}]
    /\ post_pc = "start"
    /\ post_i = 0
    /\ posted_news = <<>>
    /\ success_count = 0
    /\ post_tasks = [t \in DOMAIN post_list |-> [pc |-> "none", result |-> <<>>, runs |-> 0]]
    /\ batch_results = <<>>
    /\ post_lock = {}
    /\ post_sink = EmptyBag
    /\ posting_finished = <<>>

NextPost ==
    \/ PostRunUnavailable \/ PostRunCall \/ SeqLaunch \/ SeqPost \/ SeqFinish
    \/ ParStart \/ ParSubmit \/ ParCollect \/ ParBatchDone \/ ParFinish
    \/ ParTimeout \/ ParExcept
    \/ \E t \in DOMAIN post_tasks : WorkerStart(t)
    \/ \E t \in DOMAIN post_tasks : WorkerStartExit(t)
    \/ \E t \in DOMAIN post_tasks : WorkerPost(t)
    \/ \E t \in DOMAIN post_tasks : WorkerLock(t)
    \/ \E t \in DOMAIN post_tasks : WorkerFinish(t)
    \/ \E t \in DOMAIN post_tasks : WorkerClose(t)

SpecPost == InitPost /\ [][NextPost]_vars

(* ============ MainWindow.news_data (ui/main_window.py) ================= *)
windowSide == <<crawlerAll, postVars, storeVars>>

\* the sizes the table and the store are followed up to
MaxCrawled == 2
MaxRows == 3
MaxDocs == 3

\* main_window.py:426 and :549  f'local_{...}', and the id of a new document
LocalId(k) == <<"local_", k>>
DocId(k) == <<"doc", k>>
\* of the first j news of a crawl, how many the store has saved
Saved(saved, j) == Cardinality({i \in 1..j : i \in DOMAIN saved /\ saved[i]})

\* main_window.py:416-430  on_crawling_finished(news_list) with a list that is
\* not empty; saved[j]: firestore_manager.add_news returned an id for news j
on_crawling_finished ==
    /\ \E n \in 1..MaxCrawled : \E saved \in [1..n -> BOOLEAN] :
        /\ Len(news_data) + n <= MaxRows
        /\ next_doc + Saved(saved, n) <= MaxDocs
        /\ news_data' = news_data \o
                [j \in 1..n |->
                    [id |-> IF saved[j]
                            THEN DocId(next_doc + Saved(saved, j))
                            ELSE LocalId(Len(news_data) + Saved(saved, j))]]
        /\ next_doc' = next_doc + Saved(saved, n)
    /\ UNCHANGED windowSide

\* main_window.py:538-553  add_news with the dialog accepted
add_news ==
    /\ Len(news_data) < MaxRows
    /\ \E saved \in BOOLEAN :
        /\ saved => next_doc < MaxDocs
        /\ news_data' = Append(news_data,
                               [id |-> IF saved THEN DocId(next_doc + 1)
                                       ELSE LocalId(Len(news_data))])
        /\ next_doc' = IF saved THEN next_doc + 1 ELSE next_doc
    /\ UNCHANGED windowSide

\* main_window.py:584-601  delete_news of the selected row, confirmed
delete_news ==
    /\ \E current_row \in DOMAIN news_data :
        news_data' = [i \in 1..(Len(news_data) - 1) |->
                        IF i < current_row THEN news_data[i] ELSE news_data[i + 1]]
    /\ UNCHANGED <<next_doc, windowSide>>

\* main_window.py:37  self.news_data = []
InitWindow ==
    /\ InitIdle
    /\ input = <<>>
    /\ output = <<>>
    /\ history = FALSE
    /\ InitNoPost
    /\ InitNoStore
    /\ news_data = <<>>
    /\ next_doc = 0

NextWindow == on_crawling_finished \/ add_news \/ delete_news

SpecWindow == InitWindow /\ [][NextWindow]_vars

(* ===== FirestoreManager.delete_old_news (core/firestore_manager.py) ==== *)
storeSide == <<crawlerAll, postVars, winVars>>

\* firestore_manager.py:394  if deleted_count % 500 == 0
batch_limit == 500
\* the small numbers of old documents that are tried
MaxOld == 2

\* firestore_manager.py:376-377  the store is not available: 0
DelUnavailable ==
    /\ del_pc = "start"
    /\ ~db_available
    /\ del_ret' = <<0>>
    /\ del_pc' = "done"
    /\ UNCHANGED <<storeSide, db_available, docs, deleted_count, batch, committed>>

\* firestore_manager.py:379-388  the query is made and the first batch opened;
\* when the query raises, the except clause (:406-408) returns 0
DelQuery ==
    /\ del_pc = "start"
    /\ db_available
    /\ \E raises \in BOOLEAN :
        IF raises
        THEN del_ret' = <<0>> /\ del_pc' = "done"
        ELSE del_ret' = del_ret /\ del_pc' = "loop"
    /\ UNCHANGED <<storeSide, db_available, docs, deleted_count, batch, committed>>

\* firestore_manager.py:390-394  one document of the loop
DelDelete ==
    /\ del_pc = "loop"
    /\ deleted_count < Len(docs)
    /\ batch' = batch \cup {docs[deleted_count + 1]}
    /\ deleted_count' = deleted_count + 1
    /\ del_pc' = IF deleted_count' % batch_limit = 0 THEN "commit" ELSE "loop"
    /\ UNCHANGED <<storeSide, db_available, docs, committed, del_ret>>

\* firestore_manager.py:398-399  the loop is over
DelLoopEnd ==
    /\ del_pc = "loop"
    /\ deleted_count = Len(docs)
    /\ del_pc' = IF deleted_count % batch_limit # 0 THEN "last_commit" ELSE "return"
    /\ UNCHANGED <<storeSide, db_available, docs, deleted_count, batch, committed,
                   del_ret>>

\* firestore_manager.py:395-396 and :399  batch.commit(), all of the batch or
\* nothing; in the loop a new batch follows; when it raises, the except
\* clause (:406-408) returns 0
DelCommit ==
    /\ del_pc \in {"commit", "last_commit"}
    /\ \E raises \in BOOLEAN :
        IF raises
        THEN /\ del_ret' = <<0>>
             /\ del_pc' = "done"
             /\ UNCHANGED <<batch, committed>>
        ELSE /\ committed' = Append(committed, batch)
             /\ batch' = {}
             /\ del_pc' = IF del_pc = "commit" THEN "loop" ELSE "return"
             /\ UNCHANGED del_ret
    /\ UNCHANGED <<storeSide, db_available, docs, deleted_count>>

\* firestore_manager.py:401-402  return deleted_count
DelReturn ==
    /\ del_pc = "return"
    /\ del_ret' = <<deleted_count>>
    /\ del_pc' = "done"
    /\ UNCHANGED <<storeSide, db_available, docs, deleted_count, batch, committed>>

\* the documents older than the cutoff: none, a few, and numbers around one
\* and two full batches
InitStore ==
    /\ InitIdle
    /\ input = <<>>
    /\ output = <<>>
    /\ history = FALSE
    /\ InitNoPost
    /\ InitNoWindow
    /\ db_available \in BOOLEAN
    /\ \E n \in (0..MaxOld) \cup {batch_limit - 1, batch_limit, batch_limit + 1,
                                  2 * batch_limit, 2 * batch_limit + 1} :
        docs = [i \in 1..n |-> i]
    /\ del_pc = "start"
    /\ deleted_count = 0
    /\ batch = {}
    /\ committed = <<>>
    /\ del_ret = <<>>

NextStore ==
    DelUnavailable \/ DelQuery \/ DelDelete \/ DelLoopEnd \/ DelCommit \/ DelReturn

SpecStore == InitStore /\ [][NextStore]_vars

(* ---- two overlapping crawls on one CrawlerThread (server/main.py:64) ---- *)
\* AsyncCrawlingService holds one CrawlerThread and every request calls its
\* crawl_ytn_news, so a second call can run while the first is under way. The
\* second call has its own locals (news_urls, results, futures, its pool);
\* what it shares with the first are the instance's fields: completed_count,
\* counter_lock, progress_lock and the signal. The steps of the second call
\* that touch these are modelled; each is one critical section of its lock.

\* the records the second call can collect: one per article of the site
OtherArticles == Cardinality(JoinKeys)

\* crawler.py:84-85, second call  with self.counter_lock: self.completed_count = 0
OtherResetCounter ==
    /\ other.pc = "reset_counter"
    /\ counter_lock = {}
    /\ completed_count' = 0
    /\ other' = [other EXCEPT !.pc = "collecting"]
    /\ UNCHANGED <<response, site, caller, svc_pc, svc_result, completedAtTimeout,
                   fault, pages, target_count, callVars, history, appVars, callerVars, pc, mainIn, news_urls,
                   executor, futures, pre, waiter,
                   finished_futures, yielded, cur, current_count, results,
                   news_list, ret, progress_lock, counter_lock, sink>>

\* crawler.py:103-109, second call  results.append(news); with
\* self.counter_lock: self.completed_count += 1; current_count = ...
OtherCount ==
    /\ other.pc = "collecting"
    /\ other.results < OtherArticles
    /\ counter_lock = {}
    /\ completed_count' = completed_count + 1
    /\ other' = [pc |-> "emit_collected", results |-> other.results + 1,
                 current_count |-> completed_count + 1]
    /\ UNCHANGED <<response, site, caller, svc_pc, svc_result, completedAtTimeout,
                   fault, pages, target_count, callVars, history, appVars, callerVars, pc, mainIn, news_urls,
                   executor, futures, pre, waiter,
                   finished_futures, yielded, cur, current_count, results,
                   news_list, ret, progress_lock, counter_lock, sink>>

\* crawler.py:111, second call  self.emit_progress(f"... {current_count}...")
OtherEmitCollected ==
    /\ other.pc = "emit_collected"
    /\ progress_lock = {}
    /\ sink' = sink (+) SetToBag({Msg("collected", 0, NoUrl, other.current_count)})
    /\ other' = [other EXCEPT !.pc = "collecting"]
    /\ UNCHANGED <<response, site, caller, svc_pc, svc_result, completedAtTimeout,
                   fault, pages, target_count, callVars, history, appVars, callerVars, pc, mainIn, news_urls,
                   executor, futures, pre, waiter,
                   finished_futures, yielded, cur, current_count, results,
                   news_list, ret, progress_lock, counter_lock, completed_count>>

\* crawler.py:113-119, second call  the loop is exhausted, the call returns
OtherReturn ==
    /\ other.pc = "collecting"
    /\ other' = [other EXCEPT !.pc = "returned"]
    /\ UNCHANGED <<response, site, caller, svc_pc, svc_result, completedAtTimeout,
                   fault, pages, target_count, callVars, history, appVars, callerVars, crawlVars>>

\* two requests to the service: the first call as in Spec, the second about
\* to reset the counter
InitOverlap ==
    /\ response \in FailedResponses \cup ListResponses(OtherArticles)
    /\ site = AnyOutcome(UrlsOf(Items))
    /\ InitCrawl
    /\ InitNoCall
    /\ InitNoRun
    /\ other = [OtherNone EXCEPT !.pc = "reset_counter"]
    /\ fault = "none"
    /\ pages = [u \in DOMAIN site |-> {PlainPage}]
    /\ target_count = default_target_count
    /\ caller = "rest"
    /\ svc_pc = "awaiting"
    /\ svc_result = <<>>
    /\ completedAtTimeout = 0

NextOverlap ==
    Next \/ OtherResetCounter \/ OtherCount \/ OtherEmitCollected \/ OtherReturn

SpecOverlap == InitOverlap /\ [][NextOverlap]_vars

(* ============================== claims ================================= *)
Returned == ret # <<>>
Aggregate == ret[1]
Dispatched == Len(futures)
Succeeded == {t \in Tasks : futures[t].fetched}
Failed == {t \in Tasks : futures[t].pc \in {"err", "err_in", "finished"} /\ ~futures[t].fetched}
RecordsOf(u, list) == {i \in DOMAIN list : list[i].url = u}
ErrorMsg(u) == Msg("task_error", 0, u, 0)
\* the run is over or can take a step: it is never stuck
NeverStuck == Returned \/ ENABLED Next

\* the messages a finished run over a non-empty listing has passed to
\* emit_progress, each with the number of calls that passed it
PassedByMain ==
    SetToBag({Msg("connecting", 0, NoUrl, 0), Msg("found", 0, NoUrl, Len(news_urls)),
              Msg("final", 0, NoUrl, Cardinality(Succeeded))}
             \cup {Msg("submit", i, NoUrl, Dispatched) : i \in Tasks}
             \cup {Msg("collected", 0, NoUrl, k) : k \in 1..Cardinality(Succeeded)})
PassedByTasks ==
    SetToBag({Msg("task_start", t, futures[t].url, 0) : t \in Tasks}
             \cup {Msg("task_done", t, NoUrl, 0) : t \in Succeeded})
    (+) [m \in {ErrorMsg(futures[t].url) : t \in Failed} |->
            Cardinality({t \in Failed : futures[t].url = m.url})]

\* C1: once crawl_ytn_news has assembled its aggregate, reported completion or
\* returned, every task it submitted has finished: none is queued or running.
C1_ReturnsAfterEveryTask ==
    (pc \in {"shutdown", "emit_final", "return", "returned"} /\ news_urls # <<>>)
        => /\ Dispatched = Len(target_urls)
           /\ \A t \in Tasks : futures[t].pc = "finished"
C1_Witness ==
    /\ Returned
    /\ Dispatched >= 2
    /\ Failed # {} /\ Succeeded # {}

\* C2: a task that failed never aborts the run and never keeps another task
\* from finishing and being collected: the run is never stuck, and when it has
\* returned every URL was dispatched, every task has finished and was handed
\* to the loop, and every record a task produced is in the aggregate.
C2_FailureIsolated ==
    /\ NeverStuck
    /\ (Returned /\ news_urls # <<>>)
        => /\ Dispatched = Len(target_urls)
           /\ \A t \in Tasks : futures[t].pc = "finished" /\ t \in yielded
           /\ \A t \in Tasks :
                futures[t].result # <<>> =>
                    \E i \in DOMAIN Aggregate : Aggregate[i] = futures[t].result[1]
C2_Witness ==
    /\ Returned
    /\ \E t, u \in Tasks :
        /\ t < u
        /\ ~futures[t].fetched
        /\ futures[u].fetched
        /\ \E i \in DOMAIN Aggregate : Aggregate[i].index = u

\* C3: a run that dispatched N URLs of which the GETs of the tasks in F failed
\* completes and returns exactly N - |F| records, and the sink holds exactly
\* |F| failure messages: for each URL as many as tasks of that URL failed.
C3_FailuresCounted ==
    /\ NeverStuck
    /\ (Returned /\ news_urls # <<>>)
        => /\ Dispatched = Len(target_urls)
           /\ Len(Aggregate) = Dispatched - Cardinality(Failed)
           /\ \A t \in Tasks :
                CopiesIn(ErrorMsg(futures[t].url), sink)
                    = Cardinality({f \in Failed : futures[f].url = futures[t].url})
           /\ \A m \in BagToSet(sink) :
                m.kind = "task_error" => \E f \in Failed : futures[f].url = m.url
C3_Witness ==
    /\ Returned
    /\ Dispatched = MaxListing
    /\ Cardinality(Failed) = 2
    /\ Len(Aggregate) = Dispatched - 2

\* C4: every dispatched URL of which a fetch succeeded is in the returned
\* aggregate exactly once, and a URL of which no fetch succeeded is not in it.
C4_EachUrlExactlyOnce ==
    Returned =>
        \A u \in Range(target_urls) :
            Cardinality(RecordsOf(u, Aggregate))
                = IF \E t \in Succeeded : futures[t].url = u THEN 1 ELSE 0

\* C5: either no URL is dispatched twice, or the returned aggregate holds at
\* most one record for each URL.
C5_DuplicatesRemoved ==
    \/ \A t, u \in Tasks : futures[t].url = futures[u].url => t = u
    \/ Returned => \A u \in Range(target_urls) : Cardinality(RecordsOf(u, Aggregate)) <= 1

\* C6: when discovery yields no URL the run returns the empty aggregate with no
\* pool created and no task submitted, and the sink holds the opening message
\* and exactly one message that no links were found; that message is emitted in
\* no other run.
C6_EmptyDiscoveryShortCircuits ==
    /\ (Returned /\ news_urls = <<>>)
        => /\ Aggregate = <<>>
           /\ executor = "none"
           /\ futures = <<>>
           /\ CopiesIn(Msg("no_links", 0, NoUrl, 0), sink) = 1
           /\ sink = SetToBag({Msg("connecting", 0, NoUrl, 0), Msg("no_links", 0, NoUrl, 0)})
    /\ news_urls # <<>> => CopiesIn(Msg("no_links", 0, NoUrl, 0), sink) = 0
    /\ (executor # "none" \/ futures # <<>>) => news_urls # <<>>
C6_Witness ==
    /\ Returned
    /\ response.kind = "list"
    /\ news_urls = <<>>

\* C7: when the wait for the crawl timed out while tasks were outstanding and
\* records had been produced by then, the service returns those records (not an
\* empty result) and the sink holds a message noting the timeout.
C7_TimeoutReturnsPartial ==
    (svc_pc = "returned_error" /\ completedAtTimeout > 0)
        => /\ Len(svc_result[1].news_list) >= completedAtTimeout
           /\ \E m \in BagToSet(sink) : m.kind = "timeout"

\* C8: at every moment at most max_workers (5) fetch tasks are executing, however
\* many URLs were dispatched.
C8_AtMostFiveRunning == Cardinality(Running) <= max_workers
C8_Witness ==
    /\ Cardinality(Running) = max_workers
    /\ \E t \in Tasks : futures[t].pc = "queued"

\* C9: at most one thread at a time is inside emit_progress's with-block, the
\* sink never holds a message more often than it was passed, and when the run
\* has returned every message passed to emit_progress is in the sink exactly as
\* often as it was passed.
C9_EmissionSerialized ==
    /\ Cardinality(InSection) <= 1
    /\ (Returned /\ news_urls # <<>>) => sink = PassedByMain (+) PassedByTasks
    /\ \A t \in Tasks :
        CopiesIn(Msg("task_start", t, futures[t].url, 0), sink)
            = IF futures[t].pc \in {"queued", "begin", "begin_in"} THEN 0 ELSE 1
C9_Witness ==
    /\ \E t \in InSectionTasks :
        \/ pc \in EmitStatements
        \/ \E u \in Tasks : futures[u].pc \in {"begin", "ok", "err"}
    /\ BagCardinality(sink) >= 4

\* C10 as claimed: a result is folded into the result list, and the counter is
\* read and incremented, only by a thread that holds a lock.
C10_EveryAccessUnderALock ==
    [][ /\ (results' # results \/ news_list' # news_list)
            => 0 \in (progress_lock \cup counter_lock)
        /\ (completed_count' # completed_count \/ current_count' # current_count)
            => 0 \in counter_lock ]_vars

\* C10 as amended: the result list and the aggregate are written by the
\* orchestrator thread alone, in steps of its own and with no lock held; the
\* counter is written and read (into current_count) only by the orchestrator
\* while it holds counter_lock, and counter_lock is held nowhere else.
C10_CounterUnderLockResultsConfined ==
    [][ /\ (results' # results \/ news_list' # news_list)
            => /\ pc' # pc
               /\ futures' = futures
               /\ 0 \notin (progress_lock \cup counter_lock)
        /\ (completed_count' # completed_count \/ current_count' # current_count)
            => /\ pc \in {"reset_counter_in", "count_in"}
               /\ pc' # pc
        /\ (pc \in {"reset_counter_in", "count_in"} /\ pc' # pc)
            => /\ counter_lock = {0}
               /\ counter_lock' = {} ]_vars
C10_Witness ==
    /\ pc = "count_in"
    /\ counter_lock = {0}
    /\ Len(results) = 2
    /\ completed_count = 1
    /\ Running # {}

\* C11: within one run the counts are accurate. The counter is 0 when the pool
\* is opened; from then on it equals the number of records collected so far
\* (one less while the record just appended is not counted yet); the count a
\* success message is about to report is that number; the sink holds exactly
\* the success messages 1..k for the k records whose message is out; and the
\* final message reports the length of the returned aggregate.
CollectedMsg(k) == Msg("collected", 0, NoUrl, k)
Uncounted == IF pc \in {"count", "count_in"} THEN 1 ELSE 0
Unreported == IF pc \in {"count", "count_in", "emit_collected"} THEN 1 ELSE 0
C11_CountsAccurate ==
    /\ pc = "open_pool" => completed_count = 0
    /\ executor # "none" => completed_count = Len(results) - Uncounted
    /\ pc = "emit_collected" => current_count = Len(results)
    /\ \A m \in BagToSet(sink) :
        m.kind = "collected" => m.n \in 1..(Len(results) - Unreported)
    /\ \A k \in 1..(Len(results) - Unreported) : CopiesIn(CollectedMsg(k), sink) = 1
    /\ (Returned /\ news_urls # <<>>)
        => /\ CopiesIn(Msg("final", 0, NoUrl, Len(Aggregate)), sink) = 1
           /\ \A m \in BagToSet(sink) : m.kind = "final" => m.n = Len(Aggregate)
C11_Witness ==
    /\ pc = "emit_collected"
    /\ current_count = 2
    /\ \E t \in yielded : ~futures[t].fetched
    /\ CopiesIn(CollectedMsg(1), sink) = 1

\* C12: when two crawls overlap on one CrawlerThread, each one's count is its
\* own: the number a call is about to report in a success message is the
\* number of records that call has collected.
C12_CountsAreTheRunsOwn ==
    /\ pc = "emit_collected" => current_count = Len(results)
    /\ other.pc = "emit_collected" => other.current_count = other.results

\* C13: with fetch outcomes that are deterministic, the set of URLs in the
\* returned aggregate is a function of the input alone (the URLs dispatched
\* whose GET succeeds), so any two runs over the same URL set return the same
\* set whatever their interleavings; the order of the records is not fixed.
AggregateUrls == {Aggregate[i].url : i \in DOMAIN Aggregate}
C13_AggregateUrlsDetermined ==
    Returned => AggregateUrls = {u \in Range(target_urls) : site[u] = {"ok"}}
C13_Witness ==
    /\ Returned
    /\ Len(Aggregate) = 2
    /\ Aggregate[1].index > Aggregate[2].index
    /\ Cardinality(AggregateUrls) = 2

\* C14: an exception that no statement of crawl_ytn_news expects, raised while
\* discovering, dispatching or collecting (outside the loop's own try-block),
\* takes the run to its failure path and nowhere else: the run can always go
\* on until it has returned, every task it had submitted is finished by then,
\* it returns the empty list and it has emitted the failure message once.
FailedStatements == {"fail_shutdown", "emit_failed", "return_failed", "returned"}
FailedMsg == Msg("failed", 0, NoUrl, 0)
C14_UnhandledExceptionFailsRun ==
    fault = "unhandled"
        => /\ pc \in FailedStatements
           /\ Returned \/ ENABLED NextFault
           /\ Returned => /\ Aggregate = <<>>
                           /\ CopiesIn(FailedMsg, sink) = 1
                           /\ \A t \in Tasks : futures[t].pc = "finished"
C14_Witness ==
    /\ fault = "unhandled"
    /\ Returned
    /\ results # <<>>
    /\ Tasks \ yielded # {}

\* C15: discovery never raises into crawl_ytn_news: the run never enters the
\* failure path; and on a request error, an HTTP error status, an empty, blank,
\* 'null' or 'false' body, a body that is not JSON, or a JSON value that is not
\* a list of objects, get_news_urls returns the empty list, the run emits the
\* "no links" message once, dispatches nothing and returns the empty list.
NoLinksMsg == Msg("no_links", 0, NoUrl, 0)
Discovered == pc \notin {"emit_connecting", "discover"}
C15_DiscoveryNeverRaises ==
    /\ pc \notin {"emit_failed", "return_failed"}
    /\ CopiesIn(FailedMsg, sink) = 0
    /\ (Discovered /\ response \in FailedResponses)
        => /\ news_urls = <<>>
           /\ pc \in {"emit_no_links", "return_empty", "returned"}
           /\ Tasks = {}
           /\ Returned => Aggregate = <<>> /\ CopiesIn(NoLinksMsg, sink) = 1
C15_Witness ==
    /\ Returned
    /\ get_news_urls_try(response).exc = "HTTPError"
    /\ CopiesIn(NoLinksMsg, sink) = 1

\* C16: a fetch task makes one GET, no more: none before it reaches the
\* request, exactly one from then on. Whatever the GET ends in (timeout,
\* transport error, error status) and whatever parsing and extraction do,
\* nothing is raised into the orchestrator's loop: a task that built no record
\* returns None, and by the time it has finished it has emitted one error
\* message that names its URL.
BeforeGet == {"queued", "begin", "begin_in", "get"}
FinishedFailed(u) ==
    {t \in Tasks : futures[t].pc = "finished" /\ ~futures[t].fetched /\ futures[t].url = u}
C16_OneGetNeverRaises ==
    /\ \A t \in Tasks :
        /\ futures[t].gets = IF futures[t].pc \in BeforeGet THEN 0 ELSE 1
        /\ ~futures[t].fetched => futures[t].result = <<>>
        /\ futures[t].pc \in {"err", "err_in"} => ~futures[t].fetched
    /\ \A u \in DOMAIN site : CopiesIn(ErrorMsg(u), sink) = Cardinality(FinishedFailed(u))
    /\ pc \notin {"emit_loop_error", "emit_failed", "return_failed"}
C16_Witness ==
    /\ Returned
    /\ Aggregate = <<>>
    /\ \E t \in Tasks :
        /\ futures[t].gets = 1
        /\ futures[t].page # <<>>
        /\ futures[t].page[1].raises
        /\ futures[t].result = <<>>
        /\ CopiesIn(ErrorMsg(futures[t].url), sink) = 1

\* C17: every record of the returned aggregate has a title and a content that
\* are not None (the content may be the placeholder), the URL its task was
\* dispatched with, posted_to_blog false and an empty blog_url.
C17_RecordsWellFormed ==
    Returned =>
        \A i \in DOMAIN Aggregate :
            LET news == Aggregate[i]
            IN  /\ news.title # None
                /\ news.content # None
                /\ news.index \in Tasks
                /\ news.url = target_urls[news.index]
                /\ news.url = futures[news.index].url
                /\ news.posted_to_blog = FALSE
                /\ news.blog_url = ""
C17_Witness ==
    /\ Returned
    /\ Len(Aggregate) = 2
    /\ Aggregate[1].content = ContentNotFound
    /\ Aggregate[1].title = TitleNotFound
    /\ Aggregate[2].content # ContentNotFound

\* C18 as stated: a task whose page has no element for the title selector or
\* none for the content selector returns None.
PageOf(t) == futures[t].page[1]
Mismatched(t) ==
    /\ futures[t].page # <<>>
    /\ ~PageOf(t).raises
    /\ PageOf(t).title = <<>> \/ PageOf(t).content = <<>>
C18_SelectorMismatchReturnsNull ==
    \A t \in Tasks : Mismatched(t) => futures[t].result = <<>>

\* C18 as the code has it: a task whose page has no element for the title
\* selector or none for the content selector still returns a record, with the
\* "not found" string in place of the field that is missing and the cleaned
\* text of the element in the other; the record enters the aggregate.
C18_SelectorMismatchGivesPlaceholder ==
    \A t \in Tasks : Mismatched(t) =>
        /\ futures[t].result # <<>>
        /\ LET news == futures[t].result[1]
           IN  /\ news.title = IF PageOf(t).title = <<>> THEN TitleNotFound
                                ELSE clean_content(PageOf(t).title[1])
               /\ news.content = IF PageOf(t).content = <<>> THEN ContentNotFound
                                  ELSE clean_content(PageOf(t).content[1])
               /\ Returned => \E i \in DOMAIN Aggregate : Aggregate[i] = news
C18_Witness ==
    /\ Returned
    /\ \E t \in Tasks :
        /\ Mismatched(t)
        /\ PageOf(t).content = <<>>
        /\ PageOf(t).title # <<>>
        /\ \E i \in DOMAIN Aggregate : Aggregate[i].index = t

\* C19: every record of the returned aggregate has a title that is not empty
\* and of at most title_max characters, and a content of at most content_max
\* characters.
C19_TitleNonEmptyAndBounded ==
    Returned =>
        \A i \in DOMAIN Aggregate :
            /\ Aggregate[i].title # <<>>
            /\ TextLen(Aggregate[i].title) <= title_max
            /\ TextLen(Aggregate[i].content) <= content_max

\* C20: a run whose target count is zero or negative makes no network
\* request: the discovery POST is not sent and no task makes a GET.
C20_InvalidConfigFailsFast ==
    target_count <= 0 =>
        /\ ~Discovered
        /\ \A t \in Tasks : futures[t].gets = 0

\* C21: the completion message of every dispatched task is out before the
\* run's final message: when the orchestrator is about to emit the final
\* message, and whenever that message is in the sink, the sink holds the
\* success message of every task that built a record (with its index) and,
\* for every URL, one failure message per task that failed on it; every
\* dispatched task is one or the other.
FinalEmitted == \E m \in BagToSet(sink) : m.kind = "final"
DoneMsg(t) == Msg("task_done", t, NoUrl, 0)
C21_TaskMessagesBeforeFinal ==
    (pc = "emit_final" \/ FinalEmitted) =>
        /\ Dispatched = Len(target_urls)
        /\ Tasks = Succeeded \cup Failed
        /\ \A t \in Succeeded : CopiesIn(DoneMsg(t), sink) = 1
        /\ \A t \in Failed :
            CopiesIn(ErrorMsg(futures[t].url), sink)
                = Cardinality({f \in Failed : futures[f].url = futures[t].url})
C21_Witness ==
    /\ pc = "emit_final"
    /\ ~FinalEmitted
    /\ Dispatched >= 2
    /\ Succeeded # {} /\ Failed # {}

\* C22: a handler that is given an empty list tells the user of a failure and
\* hands nothing to the store.
Handled(i) == IF caller = "gui" THEN crawling_finished[i] ELSE svc_result[1].news_list
C22_EmptyResultReportedAsFailure ==
    \A i \in DOMAIN reply :
        Handled(i) = <<>> => ~reply[i].success /\ reply[i].persisted = <<>>

\* C23: clean_content is defined on every text, on the empty string and on None;
\* what it returns neither starts nor ends with white space and has no two
\* adjacent white-space characters; it returns the empty string for the empty
\* string and for None; applied to its own result it returns that result.
Normalised(text) ==
    /\ text # <<>> => text[1][1] # " " /\ text[Len(text)][1] # " "
    /\ \A i \in DOMAIN text : text[i][1] = " " => text[i][2] = 1
C23_CleanContentIdempotent ==
    /\ \A i \in DOMAIN output : Normalised(output[i])
    /\ input \in {<<>>, None} /\ output # <<>> => output[1] = <<>>
    /\ Len(output) = 2 => output[2] = output[1]
\* a text with leading, doubled and trailing white space has been cleaned twice
C23_Witness ==
    /\ Len(output) = 2
    /\ input = <<Ws(2), Chars(1), Ws(2), Chars(2)>>
    /\ output[1] = <<Chars(1), Ws(1), Chars(2)>>

\* C24: extract_author returns on every content, and what it returns is None or
\* a name of 2 to 4 Hangul syllables that is not one of forbidden_words; a
\* content without the literal YTN gives None, and so does a content whose
\* match, once its suffix is cut, is one of forbidden_words.
C24_AuthorIsNameOrNone ==
    output # <<>> =>
        /\ \/ output[1] = None
           \/ /\ TextLen(output[1]) \in 2..4
              /\ \A k \in DOMAIN output[1] : output[1][k][1] \in Hangul
              /\ output[1] \notin forbidden_words
        /\ YTN \notin Range(input) => output[1] = None
        /\ strip_suffix(first_match(input)) \in forbidden_words => output[1] = None
\* "YTN 취재기자": the match is 취재기자, the suffix 기자 is cut, 취재 is forbidden
C24_Witness ==
    /\ input = <<YTN, Ws(1)>> \o Word(<<"chwi", "jae", "gi", "ja">>)
    /\ output = <<None>>

\* C25: on a listing that is a JSON list of n items, get_news_urls returns
\* min(n, 10) URLs, the i-th built from the mcd and join_key of the i-th item;
\* the i-th task the orchestrator submits is for the i-th of them, and when its
\* submit loop has ended it has submitted one task for each of the first
\* target_count of them and no other.
C25_UrlsInListingOrder ==
    response.kind = "list" =>
        /\ pc \notin {"emit_connecting", "discover"} =>
                /\ Len(news_urls) = Min(Len(response.items), 10)
                /\ \A i \in DOMAIN news_urls :
                      news_urls[i] = <<"https://www.ytn.co.kr/_ln/", response.items[i].mcd,
                                       "_", response.items[i].join_key>>
        /\ \A t \in DOMAIN futures :
                futures[t].url = news_urls[t] /\ futures[t].index = t
        /\ pc = "as_completed" => Len(futures) = Min(Len(news_urls), target_count)
\* eleven items: ten URLs, ten tasks
C25_Witness ==
    /\ pc = "as_completed"
    /\ Len(response.items) = 11
    /\ Len(news_urls) = 10
    /\ Len(futures) = 10

\* C26: a GET of /api/news/unposted, /api/news/search or /api/news/stats and a
\* PUT of /api/news/bulk are served by the handlers written for them
\* (get_unposted_news, search_news, get_news_statistics, update_multiple_news)
\* and never by a handler of /api/news/{news_id}.
Request(method, path) == [method |-> method, path |-> path]
Dedicated ==
    {<<Request("GET", <<"api", "news", "unposted">>), "get_unposted_news">>,
     <<Request("GET", <<"api", "news", "search">>), "search_news">>,
     <<Request("GET", <<"api", "news", "stats">>), "get_news_statistics">>,
     <<Request("PUT", <<"api", "news", "bulk">>), "update_multiple_news">>}
C26_DedicatedHandlersServe ==
    \A d \in Dedicated :
        (input = d[1] /\ output # <<>>) =>
            /\ output[1] = d[2]
            /\ output[1] \notin {"get_news_by_id", "update_news", "delete_news"}

\* C27: a thread holds progress_lock only inside emit_progress and counter_lock
\* only inside one of the two with-blocks of the orchestrator, and a thread
\* that is at an HTTP request (the orchestrator at the discovery POST, a task at
\* its GET) holds neither lock.
AtHttpRequest == (IF pc = "discover" THEN {0} ELSE {}) \cup {t \in Tasks : futures[t].pc = "get"}
C27_NoLockAcrossHttp ==
    /\ progress_lock \subseteq InSection
    /\ counter_lock \subseteq (IF pc \in {"reset_counter_in", "count_in"} THEN {0} ELSE {})
    /\ AtHttpRequest \cap (progress_lock \cup counter_lock) = {}
\* a task is at its GET while another thread holds progress_lock, and the task
\* got there through emit_progress
C27_Witness ==
    \E t \in Tasks :
        /\ futures[t].pc = "get"
        /\ progress_lock # {}
        /\ CopiesIn(TaskMsg([futures[t] EXCEPT !.pc = "begin_in"]), sink) >= 1

\* C28 as stated: of any two records of the returned aggregate, the one whose
\* task finished first comes first.
TaskOf(record) == futures[record.index]
C28_AggregateInCompletionOrder ==
    Returned =>
        \A i, j \in DOMAIN Aggregate :
            i < j => TaskOf(Aggregate[i]).nth < TaskOf(Aggregate[j]).nth
\* C28 as the code has it: the records of the tasks that had finished when
\* as_completed was called come first, in any order; after them come the
\* records of the other tasks, in the order in which these finished.
C28_CompletionOrderAfterWait ==
    Returned =>
        \A i, j \in DOMAIN Aggregate :
            i < j =>
                /\ TaskOf(Aggregate[j]).early => TaskOf(Aggregate[i]).early
                /\ ~TaskOf(Aggregate[j]).early =>
                        TaskOf(Aggregate[i]).nth < TaskOf(Aggregate[j]).nth
\* three records: two of tasks that finished before as_completed was called,
\* the one that finished second first, and one of a task that finished after
C28_Witness ==
    /\ Returned
    /\ Len(Aggregate) = 3
    /\ TaskOf(Aggregate[1]).early /\ TaskOf(Aggregate[2]).early
    /\ TaskOf(Aggregate[1]).nth > TaskOf(Aggregate[2]).nth
    /\ ~TaskOf(Aggregate[3]).early

\* C29: CrawlerThread.run emits crawling_finished once and only at its end: an
\* empty list when the libraries are missing, what crawl_ytn_news returned when
\* it returned, an empty list when an exception left crawl_ytn_news; and a run
\* whose crawl has ended can always take the step that emits.
C29_FinishedEmittedOnce ==
    caller = "gui" =>
        /\ Len(crawling_finished) = (IF run_pc = "done" THEN 1 ELSE 0)
        /\ run_pc = "done" =>
              crawling_finished[1] =
                  (IF ~WEB_SCRAPING_AVAILABLE \/ pc = "propagated" THEN <<>> ELSE Aggregate)
        /\ run_pc = "start" => ENABLED (RunUnavailable \/ RunCall)
        /\ (run_pc = "crawling" /\ pc \in {"returned", "propagated"})
              => ENABLED (RunEmitFinished \/ RunExcept)
\* an exception has left crawl_ytn_news and run has emitted the empty list
C29_Witness ==
    /\ caller = "gui"
    /\ run_pc = "done"
    /\ fault = "escaped"
    /\ pc = "propagated"
    /\ crawling_finished = << <<>> >>

\* C30: no thread ever holds counter_lock and progress_lock together; the run
\* is never in a state in which it has not returned and no thread can take a
\* step; and, every fetch returning or timing out, the run returns.
C30_NoCircularWaitAndTerminates ==
    /\ [](progress_lock \cap counter_lock = {})
    /\ [](Returned \/ ENABLED Next)
    /\ <>Returned
\* the orchestrator holds counter_lock while a task holds progress_lock and
\* another task waits for it
C30_Witness ==
    /\ counter_lock = {0}
    /\ progress_lock # {}
    /\ 0 \notin progress_lock
    /\ \E t \in Tasks : futures[t].pc \in {"begin", "ok", "err"}

\* C31: the service always returns: once the crawl has ended, by return or by
\* exception, its return step can be taken; what it returns has the keys
\* success, message, news_list and crawled_count, crawled_count is the length
\* of news_list, and news_list is empty when success is false; trigger_crawling
\* hands records to the store only from a result with success true and a
\* non-empty news_list, and then hands over that list.
C31_ServiceResultWellFormed ==
    caller = "rest" =>
        /\ (svc_result = <<>> /\ pc \in {"returned", "propagated"})
              => ENABLED (ServiceReturn \/ ServiceReturnError \/ SyncCrawlingExcept)
        /\ \A i \in DOMAIN svc_result :
              /\ DOMAIN svc_result[i] = {"success", "message", "news_list", "crawled_count"}
              /\ svc_result[i].crawled_count = Len(svc_result[i].news_list)
              /\ ~svc_result[i].success => svc_result[i].news_list = <<>>
        /\ \A i \in DOMAIN reply :
              reply[i].persisted # <<>> =>
                  /\ svc_result[1].success
                  /\ svc_result[1].news_list # <<>>
                  /\ reply[i].persisted = svc_result[1].news_list
\* an exception left the crawl: the error result was returned, nothing stored
C31_Witness ==
    /\ caller = "rest"
    /\ fault = "escaped"
    /\ svc_result = <<ErrorResult>>
    /\ reply = <<Reply(FALSE, <<>>)>>

(* C32: every run of BlogPostThread emits posting_finished exactly once, in
   sequential mode, in parallel mode, on a browser error and when Playwright
   is unavailable: a run that has ended has emitted the signal once, and
   BlogPostManager.post_news, which leaves its event loop only in the slot of
   that signal (:432-444), returns. *)
C32_FinishedRunEmittedOnce ==
    /\ Len(posting_finished) <= 1
    /\ post_pc = "done" => Len(posting_finished) = 1

(* C33: in parallel mode the at most 9 items are split into consecutive
   batches of at most 3, every item is in exactly one batch and is handed to
   a posting task at most once (exactly once when the run completes), at most
   3 tasks run at a time, and no task of a later batch has started while a
   task of an earlier batch has not finished. *)
C33_BatchesOfThree ==
    use_parallel =>
        /\ Len(post_list) <= post_cap
        /\ \A t \in DOMAIN post_list :
                Cardinality({k \in 0..(Batches - 1) : t \in Batch(k)}) = 1
        /\ \A k \in 0..(Batches - 1) :
                /\ Cardinality(Batch(k)) \in 1..post_max_workers
                /\ \A t \in Batch(k), u \in Batch(k) :
                        \A v \in t..u : v \in Batch(k)
        /\ \A t \in DOMAIN post_tasks : post_tasks[t].runs <= 1
        /\ post_pc = "par_finish" => \A t \in DOMAIN post_tasks : post_tasks[t].runs = 1
        /\ Cardinality(Posting) <= post_max_workers
        /\ \A k \in 0..(Batches - 1) : \A t \in Batch(k) :
                \A u \in DOMAIN post_tasks :
                    (u > t /\ u \notin Batch(k) /\ post_tasks[u].pc # "none")
                        => post_tasks[t].pc \in {"finished", "collected"}

\* the third batch of a list of nine is running with three tasks at once
C33_Witness ==
    /\ use_parallel
    /\ Len(post_list) = post_cap
    /\ post_i = 2
    /\ Cardinality(Posting) = post_max_workers
    /\ \E t \in Batch(2) : post_tasks[t].pc = "posting"

(* C34: when a run has emitted its completion message "N/M succeeded", N is
   the number of records of the posted_news list emitted with
   posting_finished, every record of that list has posted_to_blog true and a
   blog_url that is not empty, and the news dictionaries given to the thread
   are as they were. *)
C34_CountMatchesPostedNews ==
    \A msg \in BagToSet(post_sink) :
        msg.kind = "complete" =>
            /\ Len(posting_finished) = 1
            /\ msg.n = Len(posting_finished[1])
            /\ msg.m = Len(post_list)
            /\ \A i \in DOMAIN posting_finished[1] :
                    /\ posting_finished[1][i].posted_to_blog
                    /\ posting_finished[1][i].blog_url # <<>>
            /\ \A i \in DOMAIN post_list : post_list[i] = News(i)

(* C35: in parallel mode every message a worker thread emits with
   progress_updated, and every record appended to posted_news, is emitted or
   appended by a step of a thread that holds progress_lock. *)
C35_WorkersEmitUnderLock ==
    [][use_parallel =>
          /\ \A msg \in BagToSet(post_sink') :
                (msg.by # 0 /\ CopiesIn(msg, post_sink') > CopiesIn(msg, post_sink))
                    => post_lock = {msg.by}
          /\ Len(posted_news') > Len(posted_news) => post_lock # {}]_vars

(* C36: after any sequence of on_crawling_finished, add_news and delete_news
   in the main window, also when the store saves nothing and local ids are
   generated, the records of news_data have pairwise distinct ids. *)
C36_DistinctIds ==
    \A i \in DOMAIN news_data : \A j \in DOMAIN news_data :
        i # j => news_data[i].id # news_data[j].id

(* C37: delete_old_news puts every matching document into exactly one batch,
   commits every batch it fills, never commits a batch of more than 500
   deletions, and returns the number of documents whose deletion was
   committed, also when a later commit fails. *)
C37_ReturnsCommittedDeletions ==
    /\ \A i \in DOMAIN committed :
            /\ Cardinality(committed[i]) \in 1..batch_limit
            /\ \A j \in DOMAIN committed : i # j => committed[i] \cap committed[j] = {}
    /\ Cardinality(batch) <= batch_limit
    /\ \A i \in DOMAIN committed : committed[i] \cap batch = {}
    /\ del_pc \in {"loop", "return"} =>
            batch \cup UNION {committed[i] : i \in DOMAIN committed}
                = {docs[k] : k \in 1..deleted_count}
    /\ del_pc = "loop" => Len(committed) = deleted_count \div batch_limit
    /\ del_pc = "return" => batch = {} /\ deleted_count = Len(docs)
    /\ del_pc = "done" =>
            del_ret = <<Cardinality(UNION {committed[i] : i \in DOMAIN committed})>>

=============================================================================
